---- MODULE Spec2Model ----
(***************************************************************************)
(* Model of the mat-ai new-email pipeline.                                 *)
(*                                                                         *)
(*  Spec         the matai pipeline: ProcessNewEmailsCommand.execute       *)
(*               driving EmailManager.process_new_emails (a generator),    *)
(*               EmailProcessor.process_email (bounded retries),           *)
(*               IntegrationManager.create_tasks and                       *)
(*               EmailManager.store_processed_emails.                      *)
(*  SpecExtract  the two extraction loops on their own, fed with every     *)
(*               model-client outcome: matai process_email and matai_v2    *)
(*               _extract_action_items.                                    *)
(*                                                                         *)
(* The clock counts ticks, TicksPerSecond to a second.  datetime.now() and  *)
(* the mailbox query keep the full precision; a message's received time    *)
(* and everything written with strftime('%Y-%m-%d %H:%M:%S') are whole     *)
(* seconds.  Confidence scores are in hundredths.                          *)
(***************************************************************************)
EXTENDS Integers, Sequences, FiniteSets, TLC

\* ---------------------------------------------------------------- bounds
MaxTime == 3      \* the clock runs over 0..MaxTime
TicksPerSecond == 2  \* clock ticks in one second
MaxMsgs == 2      \* messages that can ever reach the mailbox
MaxRuns == 2      \* executions of the command
MaxItems == 2     \* items in one model response
MaxRetriesBound == 3  \* SpecExtract draws max_retries from 0..MaxRetriesBound
MaxHour == 3      \* SpecItem: wall-clock readings run over 0..MaxHour
MaxReads == 2     \* SpecBody: clean_body accesses counted after an assignment
MaxChunks == 3    \* SpecClean: chunks in a body
MaxCells == 3     \* SpecTable: cells in a table row
MaxRows == 3      \* SpecTable: rows in a table
MaxSetups == 3    \* SpecSetup: setups against the board
MaxLists == 3     \* SpecSetup: lists other users add to the board
MaxFetch == 3     \* SpecRun: messages one fetch returns
MaxRunsV2 == 2    \* SpecRun: runs of the v2 command

\* ------------------------------------------------------------- constants
confidence_level == 85        \* 0.85, the default threshold
min_text_length == 10         \* _find_first_divider: shorter texts are not searched
max_search_length == 10000    \* _find_first_divider: the part of the text searched first
days_default == 2 \* cli.py: the default of --days (hours in the model)
max_retries_default == 3      \* process_email(..., max_retries=3)
FallbackLookback == 2         \* timedelta(days=2), in clock units
NoneTime == -1                \* last_run_time is None / message not delivered

MsgIds == 1..MaxMsgs
ValidTypes == {"deadline", "task", "meeting", "decision", "information"}
AppBoard == "Mantis"

\* ------------------------------------------------------------- variables
VARIABLES
    now,                 \* wall clock (datetime.now())
    received,            \* mailbox: message id -> received timestamp, NoneTime if not delivered
    run_configurations,  \* table run_configurations: sequence of rows
    execution_reports,   \* table execution_reports: sequence of rows
    email_contents,      \* table email_contents: message id -> number of rows
    action_items_tbl,    \* table action_items: message id -> sequence of stored items
    cards,               \* task board: message id -> sequence of cards created for it
    board_lists,         \* task board: names of the lists of the board, in id order
    list_id,             \* IntegrationManager._list_id (0 is None)
    filters,             \* FiltersConfig.recipients
    pc,                  \* position inside execute()
    run_configuration,   \* local of execute(): [configuration_id, last_run_time]
    new_emails,          \* generator state: messages still to be processed
    email,               \* the message being processed (0 when none)
    ext,                 \* state of the retry loop of process_email
    action_items,        \* the items yielded for the current message
    filtered_action_items, \* the items that passed the gate
    managed_emails_num,
    generated_action_items,
    runs,                \* number of executions started
    hist,                \* observation record of the runs (not program state)
    ex1, ex2, ex_max,    \* SpecExtract: matai loop, matai_v2 loop, max_retries
    ex_last,             \* SpecExtract: the outcome of the latest client call
    item,                \* SpecItem: one item of a response on its way to an ActionItem
    processed_email,     \* SpecStore: the rows of table PROCESSED_EMAIL
    store_hist,          \* SpecStore: observation record of the store calls
    content,             \* SpecBody: an EmailContent, its body and its cleaned body
    doc,                 \* SpecClean: a body on its way through clean_body
    tbl,                 \* SpecTable: a table on its way through _convert_table_to_ascii
    trello,              \* SpecSetup: a board and the managers set up against it
    cli,                 \* SpecRun: the runs of the v2 command
    two                  \* SpecTwo: two executions of execute() side by side

pipeVars == <<now, received, run_configurations, execution_reports, email_contents,
              action_items_tbl, cards, board_lists, list_id, filters, pc,
              run_configuration, new_emails, email, ext, action_items,
              filtered_action_items, managed_emails_num, generated_action_items,
              runs, hist>>
exVars == <<ex1, ex2, ex_max, ex_last>>
storeVars == <<processed_email, store_hist>>
moreVars == <<content, doc, tbl, trello, cli, two>>
sideVars == <<exVars, item, storeVars, moreVars>>
vars == <<pipeVars, sideVars>>

\* ------------------------------------------------------------- utilities
Min(S) == CHOOSE x \in S : \A y \in S : x <= y

Max(S) == CHOOSE x \in S : \A y \in S : x >= y

\* every ordering of a finite set, as sequences without repetition
Orderings(S) ==
    {s \in [1..Cardinality(S) -> S] : \A i, j \in 1..Cardinality(S) : s[i] = s[j] => i = j}

SeqsUpTo(S, n) == UNION {[1..k -> S] : k \in 0..n}

\* ------------------------------------------- the model client's outcomes
\* One call of chat.completions.create either raises ("raise"), returns text
\* that json.loads rejects ("malformed"), or returns a JSON document whose
\* "action_items" list is `items` ("json").  An item is the dictionary
\* {"type": ..., "confidence": ...}; the type "<absent>" stands for a
\* dictionary without the "type" key.
ItemJson(t, c) == [type |-> t, confidence |-> c]

Outcome(k, items) == [kind |-> k, items |-> items]

\* the items a response is made of: a known type below and above the
\* threshold, an unknown type, no type
ResponseItems ==
    {ItemJson("task", 40), ItemJson("task", 90), ItemJson("bogus", 90),
     ItemJson("<absent>", 90)}

ExtractOutcomes ==
    {Outcome("raise", <<>>), Outcome("malformed", <<>>)}
    \cup {Outcome("json", l) :
            l \in SeqsUpTo(ResponseItems, MaxItems)}

\* the outcomes fed to the pipeline: the client fails, an item carries an
\* unknown type, or the response lists items below, at and above the
\* threshold (SpecExtract feeds the extraction loops with every outcome)
PipeItemLists ==
    {<<>>,
     <<ItemJson("task", 40)>>,
     <<ItemJson("deadline", 90), ItemJson("task", 90)>>,
     <<ItemJson("task", 40), ItemJson("task", 85)>>,
     <<ItemJson("task", 90), ItemJson("bogus", 90)>>}

PipeOutcomes ==
    {Outcome("raise", <<>>)} \cup {Outcome("json", l) : l \in PipeItemLists}

\* --------------------------------------------------------- the extraction
\* str.lower() on the type strings of the model
lower(text) == IF text = "Deadline" THEN "deadline" ELSE text

\* ActionType.from_string: the five known names, in any case, map to their
\* member, any other text raises ValueError
from_string_raises(text) == lower(text) \notin ValidTypes

from_string(text) == lower(text)

\* item_json.get("type", "task")
GetType(item_json) == IF item_json.type = "<absent>" THEN "task" ELSE item_json.type

map_action(message_id, item_json) ==
    [action_type |-> from_string(GetType(item_json)),
     confidence_score |-> item_json.confidence,
     message_id |-> message_id]

\* index of the first item on which map_action raises, 0 when none does
FirstRaising(items) ==
    LET bad == {i \in 1..Len(items) : from_string_raises(GetType(items[i]))}
    IN  IF bad = {} THEN 0 ELSE Min(bad)

\* the items appended inside the try block before it ends or raises
BuiltItems(o, message_id) ==
    IF o.kind # "json" THEN <<>>
    ELSE LET n == IF FirstRaising(o.items) = 0 THEN Len(o.items)
                  ELSE FirstRaising(o.items) - 1
         IN  [i \in 1..n |-> map_action(message_id, o.items[i])]

\* the exception the try block raises on this outcome, "none" if it completes
AttemptError(o) ==
    IF o.kind = "raise" THEN "APIError"
    ELSE IF o.kind = "malformed" THEN "JSONDecodeError"
    ELSE IF FirstRaising(o.items) # 0 THEN "ValueError"
    ELSE "none"

\* state of one extraction: `attempt` is the loop index, `calls` counts the
\* invocations of the client, `first_ok` is the number of the first attempt
\* whose try block completed (0 while none has)
InitExt ==
    [attempt |-> 0, calls |-> 0, status |-> "running", action_items |-> <<>>,
     error |-> "none", first_ok |-> 0]

IdleExt == [InitExt EXCEPT !.status = "idle"]

NoteFirstOk(st, err) ==
    IF err = "none" /\ st.first_ok = 0 THEN st.calls + 1 ELSE st.first_ok

\* a loop without the break: a successful attempt is followed by the next one
process_email_attempt_nobreak(st, o, message_id, max_retries) ==
    LET err == AttemptError(o)
        st1 == [st EXCEPT !.calls = @ + 1, !.first_ok = NoteFirstOk(st, err)]
    IN  IF err = "none"
        THEN IF st.attempt = max_retries
             THEN [st1 EXCEPT !.status = "returned",
                              !.action_items = BuiltItems(o, message_id)]
             ELSE [st1 EXCEPT !.attempt = @ + 1,
                              !.action_items = BuiltItems(o, message_id)]
        ELSE IF st.attempt = max_retries
             THEN [st1 EXCEPT !.status = "raised", !.error = err]
             ELSE [st1 EXCEPT !.attempt = @ + 1, !.error = err]

\* a loop that swallows the last error and returns what it has
process_email_attempt_swallow(st, o, message_id, max_retries) ==
    LET err == AttemptError(o)
        st1 == [st EXCEPT !.calls = @ + 1, !.first_ok = NoteFirstOk(st, err)]
    IN  IF err = "none"
        THEN [st1 EXCEPT !.status = "returned",
                         !.action_items = BuiltItems(o, message_id)]
        ELSE IF st.attempt = max_retries
             THEN [st1 EXCEPT !.status = "returned", !.error = err]
             ELSE [st1 EXCEPT !.attempt = @ + 1, !.error = err]

\* matai EmailProcessor.process_email: one iteration of
\* `for i in range(max_retries+1)`.  action_items is re-created inside the try
\* block, so only the list of the completing attempt is ever returned.
process_email_attempt(st, o, message_id, max_retries) ==
    LET err == AttemptError(o)
        st1 == [st EXCEPT !.calls = @ + 1, !.first_ok = NoteFirstOk(st, err)]
    IN  IF err = "none"
        THEN [st1 EXCEPT !.status = "returned",
                         !.action_items = BuiltItems(o, message_id)]
        ELSE IF st.attempt = max_retries
             THEN [st1 EXCEPT !.status = "raised", !.error = err]
             ELSE [st1 EXCEPT !.attempt = @ + 1, !.error = err]

\* matai_v2 EmailProcessor._extract_action_items: one iteration of
\* `for attempt in range(max_retries + 1)`.  action_items is created once,
\* before the loop, and every attempt appends to it.
extract_action_items_attempt(st, o, message_id, max_retries) ==
    LET err == AttemptError(o)
        st1 == [st EXCEPT !.calls = @ + 1, !.first_ok = NoteFirstOk(st, err),
                          !.action_items = @ \o BuiltItems(o, message_id)]
    IN  IF err = "none"
        THEN [st1 EXCEPT !.status = "returned"]
        ELSE IF st.attempt = max_retries
             THEN [st1 EXCEPT !.status = "raised", !.error = err]
             ELSE [st1 EXCEPT !.attempt = @ + 1, !.error = err]

\* ------------------------------------------------------- the persistence
\* strftime('%Y-%m-%d %H:%M:%S'): the time cut down to its whole second
strftime(t) == t - (t % TicksPerSecond)

\* RunConfiguration(last_run_time=None): no id yet, no last run
NewRunConfiguration == [configuration_id |-> 0, last_run_time |-> NoneTime]

\* SQliteRunConfigurationDAO.retrieve_last: ORDER BY last_run_time DESC LIMIT 1
retrieve_last(rows) ==
    IF rows = <<>> THEN NewRunConfiguration
    ELSE LET top == Max({rows[i].last_run_time : i \in 1..Len(rows)})
             i == Min({j \in 1..Len(rows) : rows[j].last_run_time = top})
         IN  rows[i]

\* SQliteRunConfigurationDAO.store: INSERT when the object has no id (the id
\* becomes lastrowid), UPDATE of the row with that id otherwise;
\* `last_run_time or datetime.now()` is what gets written
run_configuration_store(rows, rc, clock) ==
    LET t == IF rc.last_run_time = NoneTime THEN clock ELSE rc.last_run_time
    IN  IF rc.configuration_id = 0
        THEN Append(rows, [configuration_id |-> Len(rows) + 1, last_run_time |-> t])
        ELSE [i \in 1..Len(rows) |->
                IF rows[i].configuration_id = rc.configuration_id
                THEN [rows[i] EXCEPT !.last_run_time = t] ELSE rows[i]]

\* the id the object carries after store()
stored_configuration_id(rows, rc) ==
    IF rc.configuration_id = 0 THEN Len(rows) + 1 ELSE rc.configuration_id

\* SQLiteEmailContentDAO.list_email_contents(timestamp_from): the stored
\* messages with timestamp > timestamp_from, both as '%Y-%m-%d %H:%M:%S'
list_email_contents(timestamp_from) ==
    {m \in MsgIds : email_contents[m] > 0 /\ received[m] > strftime(timestamp_from)}

\* ------------------------------------------------------------ the mailbox
\* the recipients of a message (fixed per message id)
Recipients(m) == IF m = 1 THEN <<"a@x", "b@x">> ELSE <<"b@x">>

FilterChoices == {<<>>, <<"a@x">>}

InSeq(x, s) == \E i \in 1..Len(s) : s[i] = x

\* O365EmailClient.read_messages(start_date): received_date_time >= start_date
read_messages(start_date) ==
    {m \in MsgIds : received[m] # NoneTime /\ received[m] >= start_date}

\* a filter that keeps a message only when all its recipients are listed
apply_filters_all(emails, recipients) ==
    LET Keep(m) == \A i \in 1..Len(Recipients(m)) : InSeq(Recipients(m)[i], recipients)
    IN  IF recipients = <<>> THEN emails ELSE SelectSeq(emails, Keep)

\* EmailManager._apply_filters
apply_filters(emails, recipients) ==
    LET Keep(m) == \E i \in 1..Len(Recipients(m)) : InSeq(Recipients(m)[i], recipients)
    IN  IF recipients = <<>> THEN emails ELSE SelectSeq(emails, Keep)

\* process_new_emails: the retrieval cutoff
datetime_filter(last_run_time) ==
    IF last_run_time = NoneTime THEN now - FallbackLookback ELSE last_run_time

\* the new messages, last fetched first
NewEmails_reversed(emails, cutoff) ==
    LET processed_message_ids == list_email_contents(cutoff)
        IsNew(m) == m \notin processed_message_ids
        new == SelectSeq(apply_filters(emails, filters), IsNew)
    IN  [i \in 1..Len(new) |-> new[Len(new) + 1 - i]]

\* process_new_emails: the fetched, filtered messages that are not stored yet
NewEmails(emails, cutoff) ==
    LET processed_message_ids == list_email_contents(cutoff)
        IsNew(m) == m \notin processed_message_ids
    IN  SelectSeq(apply_filters(emails, filters), IsNew)

\* ---------------------------------------------------- the confidence gate
Gate_strict(items) ==
    LET Pass(x) == x.confidence_score > confidence_level
    IN  SelectSeq(items, Pass)

\* filter(lambda x: x.confidence_score >= self.confidence_level, action_items)
Gate(items) ==
    LET Pass(x) == x.confidence_score >= confidence_level
    IN  SelectSeq(items, Pass)

\* the items of a list whose score is at or above the threshold, in order
AtOrAbove(items) ==
    LET idx == {i \in 1..Len(items) : ~(items[i].confidence_score < confidence_level)}
        Nth(k) == CHOOSE i \in idx : Cardinality({j \in idx : j <= i}) = k
    IN  [k \in 1..Cardinality(idx) |-> items[Nth(k)]]

\* ------------------------------------------------------------------ Init
EmptyRun ==
    [mailbox |-> <<>>,   \* the messages read_messages returned, in its order
     kept |-> <<>>,      \* ... that passed _apply_filters, in that order
     batch |-> <<>>,     \* new_emails as process_new_emails computed it
     yielded |-> <<>>,   \* the messages of the yielded pairs, in yield order
     qual_items |-> 0,   \* yielded items at or above the threshold
     fetched |-> {},     \* the messages read_messages returned
     known |-> {},       \* the messages with a row in email_contents at that time
     new_set |-> {},     \* the messages process_new_emails took as new
     extracted |-> {},   \* the messages whose extraction returned
     qualified |-> {},   \* ... with an item that passed the gate
     gated_out |-> {},   \* ... with no item that passed the gate
     dispatched |-> {},  \* the messages whose create_tasks returned
     stored |-> {},      \* the messages whose store_processed_emails returned
     persisted |-> 0]    \* calls of run_configuration_dao.store

InitHist ==
    [dispatched_ok |-> [m \in MsgIds |-> 0], \* successful create_tasks per message, ever
     outcome |-> "none",          \* how the last ended run ended
     abort_step |-> "none",       \* the step that raised in the last aborted run
     abort_email |-> 0,           \* the message that step was handling
     passed |-> NoneTime,         \* last_run_time handed to process_new_emails
     prev_passed |-> NoneTime,    \* ... by the run before
     finish_clock |-> NoneTime,   \* the clock when the last completed run ended
     cutoff |-> NoneTime,         \* datetime_filter of the latest fetch
     run |-> EmptyRun,            \* what the current (or last) run did
     prev_gated_out |-> {},       \* the messages the run before it gated out
     start_configs |-> <<>>,      \* run_configurations when the run started
     start_reports |-> 0,         \* number of execution reports when it started
     last_persisted |-> NoneTime] \* last_run_time written by the last completed run

\* ------------------------------------------ one item of a model response
\* The body of the loop over llm_data["action_items"], for one item: the due
\* date is parsed, sanitized against the message's send date, and the
\* ActionItem is built and appended.  Times are in hours; a datetime is its
\* wall-clock reading and its tzinfo.
DateTime(w, z) == [wall |-> w, tzinfo |-> z]

\* tzinfo: none (a naive datetime), UTC, two hours east of UTC
TzInfos == {"naive", "+00:00", "+02:00"}

Hours == 0..MaxHour

\* Optional[datetime]: None
NoneDate == DateTime(0, "None")

\* the value under "due_date" in the item: the key is missing or null, the
\* empty string, an ISO timestamp, a date only strptime accepts, a text no
\* parser accepts, a non-zero number
RawDate(k, w, z) == [kind |-> k, wall |-> w, tzinfo |-> z]

DueDateValues ==
    {RawDate(k, 0, "naive") : k \in {"absent", "empty", "text", "number"}}
    \cup {RawDate("isoformat", w, z) : w \in Hours, z \in TzInfos}
    \cup {RawDate("date", w, "naive") : w \in Hours}

\* datetime.fromisoformat raises TypeError for an argument that is not a
\* string; _parse_date catches ValueError only
parse_date_raises(date_str) == date_str.kind = "number"

\* EmailProcessor._parse_date
parse_date(date_str) ==
    CASE date_str.kind \in {"absent", "empty"} -> NoneDate
      [] date_str.kind = "isoformat" -> DateTime(date_str.wall, date_str.tzinfo)
      [] date_str.kind = "date" -> DateTime(date_str.wall, "naive")
      [] OTHER -> NoneDate

\* datetime.replace(tzinfo=None): the same wall-clock reading, no zone
replace_tzinfo_none(dt) == [dt EXCEPT !.tzinfo = "naive"]

\* EmailProcessor._sanitarize_date
sanitarize_date(due_date, email_date) ==
    IF due_date = NoneDate
    THEN email_date
    ELSE LET naive_due == replace_tzinfo_none(due_date)
             naive_email == replace_tzinfo_none(email_date)
         IN  IF naive_due.wall < naive_email.wall THEN email_date ELSE due_date

\* the type and confidence values an item carries
ItemTypes ==
    {"<absent>", "task", "Deadline", "meeting", "decision", "information", "reminder"}

ItemConfidences == {-20, 40, 90, 150}

ItemJsonWithDate(t, c, d) == [type |-> t, confidence |-> c, due_date |-> d]

NoItem == [action_type |-> "none", confidence_score |-> 0, message_id |-> 0]

IdleItem ==
    [pc |-> "idle",
     item_json |-> ItemJsonWithDate("<absent>", 0, RawDate("absent", 0, "naive")),
     email_date |-> DateTime(0, "naive"),
     parsed |-> NoneDate,      \* what _parse_date returned
     due_date |-> NoneDate,    \* what _sanitarize_date returned
     action_item |-> NoItem,   \* what was appended to action_items
     error |-> "none"]         \* the exception that ended the attempt

\* ------------------------------------------------ matai_v2: EmailStore
\* datetime.isoformat(): the text stored in a TEXT column, as its wall-clock
\* part and its offset suffix (empty for a naive datetime)
isoformat(dt) ==
    [text |-> dt.wall, suffix |-> IF dt.tzinfo = "naive" THEN "" ELSE dt.tzinfo]

ProcessStates == {"PROCESSED", "FAILED", "SKIPPED"}

\* the message dates and the explicit process dates store is called with
StoreDates == {DateTime(w, z) : w \in 0..1, z \in {"naive", "+02:00"}}

ProcessDates == {NoneDate, DateTime(0, "naive")}

ProcessedEmails(message_id, message_date, process_state, process_date) ==
    [message_id |-> message_id,
     message_date |-> message_date,
     process_state |-> process_state,
     process_date |-> process_date]

\* INSERT INTO PROCESSED_EMAIL without the conflict clause
insert_only(table, row) == table \cup {row}

\* INSERT OR REPLACE INTO PROCESSED_EMAIL: message_id is the primary key, the
\* rows in conflict with the new one are deleted before it is inserted
insert_or_replace(table, row) ==
    {r \in table : r.message_id # row.message_id} \cup {row}

\* a record that has any status counts as processed
was_processed_any(table, message_id, process_state) ==
    \E r \in table : r.message_id = message_id

\* EmailStore.was_processed: SELECT 1 ... WHERE message_id = ? and process_state = ?
was_processed(table, message_id, process_state) ==
    \E r \in table : r.message_id = message_id /\ r.process_state = process_state

\* the order of the offset suffixes as texts: "" < "+00:00" < "+02:00"
SuffixRank(x) == IF x = "" THEN 0 ELSE IF x = "+00:00" THEN 1 ELSE 2

\* a >= b between two isoformat texts in a TEXT column (bytewise order)
text_ge(a, b) ==
    \/ a.text > b.text
    \/ a.text = b.text /\ SuffixRank(a.suffix) >= SuffixRank(b.suffix)

\* the dates and the status lists retrieve_from is called with
QueryDates == {DateTime(w, z) : w \in 0..1, z \in TzInfos}

StateFilters == {<<>>, <<"PROCESSED">>, <<"FAILED", "SKIPPED">>}

\* EmailStore.retrieve_from: WHERE message_date >= ? [AND process_state IN (...)]
retrieve_from(table, message_date, state_in) ==
    {r \in table :
        /\ text_ge(r.message_date, isoformat(message_date))
        /\ state_in # <<>> => InSeq(r.process_state, state_in)}

\* the arguments of a store call and the clock at the call
StoreCall(m, d, s, p, clock) ==
    [message_id |-> m, message_date |-> d, process_state |-> s,
     process_date |-> p, clock |-> clock]

NoCall == StoreCall(0, NoneDate, "none", NoneDate, 0)

InitStoreHist ==
    [last |-> [m \in MsgIds |-> NoCall],      \* the latest store call for m
     replaced |-> [m \in MsgIds |-> FALSE],   \* a store for m found another row of m
     over_processed |-> [m \in MsgIds |-> FALSE]]  \* the latest store for m replaced a PROCESSED row

\* ------------------------------------ matai: EmailContent body and cache
\* None in an Optional[str] field
NoneStr == "<None>"

\* the bodies a message is given: markup, plain text, text with a quoted
\* thread, the empty text
Bodies == {"<p>Hi</p>", "Hi", "Hi\nFrom:\nold", "<b>Yo</b>", ""}

\* EmailParser.clean_body: markup and quoted thread removed
EmailParser_clean_body(body) ==
    CASE body = "<p>Hi</p>" -> "Hi"
      [] body = "<b>Yo</b>" -> "Yo"
      [] body = "Hi\nFrom:\nold" -> "Hi"
      [] OTHER -> body

IdleContent ==
    [raw_content |-> "",
     body_ |-> NoneStr,          \* EmailContent._body
     clean_body_ |-> NoneStr,    \* EmailContent._clean_body
     returned |-> NoneStr,       \* what the latest clean_body access returned
     parser_calls |-> 0,         \* calls of EmailParser.clean_body since the body was assigned
     reads |-> 0]                \* clean_body accesses since the body was assigned

\* EmailContent.body (getter): the value it returns
body(c) == IF c.body_ = NoneStr THEN c.raw_content ELSE c.body_

\* EmailContent.body (getter): the object after the access
after_body(c) == [c EXCEPT !.body_ = body(c)]

\* a body setter that keeps the cleaned value
body_setter_keeping(c, value) == [c EXCEPT !.body_ = value]

\* EmailContent.body (setter)
body_setter(c, value) == [c EXCEPT !.body_ = value, !.clean_body_ = NoneStr]

\* EmailContent.clean_body (getter): the object after the access
after_clean_body(c) ==
    IF c.clean_body_ = NoneStr
    THEN [after_body(c) EXCEPT !.clean_body_ = EmailParser_clean_body(body(c)),
                               !.parser_calls = @ + 1]
    ELSE c

\* ------------------------------------------------ matai_v2: parser.py
\* A text is a sequence of chunks.  Each chunk stands for a fixed piece of
\* text, chosen so that no marker arises across two chunks:
\*   "x"  Hello                      plain word
\*   "s"  two blanks, newline, two blanks
\*   "c"  blank, newline, blank      ("s" after the whitespace clean-up)
\*   "F"  \nTo: Bob                  a fast marker, no compiled pattern
\*   "f"  To: Bob                    ("F" with its newline stripped)
\*   "E"  wrote:\nPrevious message   the exact pattern (holds a fast marker)
\*   "R"  \n>quoted                  compiled pattern (?:^|\n)> only
\*   "r"  >quoted                    ("R" with its newline stripped)
\*   "H"  From:\n.                   compiled pattern From:\n only (third in the list)
\*   "L"  ten thousand letters
\*   "T"  <b>Hello</b>               markup
\*   "A"  Bob <b@x.com>              an address in angle brackets
\*   "a"  Bob (b@x.com)              ("A" after the address substitution)
\*   "M"  1 < 2 > 0                  both angle brackets, no tag
BodyChunks == {"x", "s", "F", "E", "R", "H", "L", "T", "A", "M"}

Chars(chunk) ==
    CASE chunk \in {"x", "s"} -> 5
      [] chunk = "c" -> 3
      [] chunk \in {"F", "R"} -> 8
      [] chunk \in {"f", "r", "H"} -> 7
      [] chunk = "E" -> 23
      [] chunk = "L" -> 10000
      [] chunk = "T" -> 12
      [] chunk \in {"A", "a"} -> 13
      [] OTHER -> 9

\* len(text[:n]) for a text of chunks
RECURSIVE CharsUpTo(_, _)
CharsUpTo(text, n) == IF n = 0 THEN 0 ELSE CharsUpTo(text, n - 1) + Chars(text[n])

len(text) == CharsUpTo(text, Len(text))

Whitespace == {"s", "c"}

\* str.strip()
RECURSIVE lstrip(_)
lstrip(text) ==
    IF text = <<>> THEN <<>>
    ELSE IF text[1] \in Whitespace THEN lstrip(Tail(text))
    ELSE IF text[1] = "F" THEN <<"f">> \o Tail(text)
    ELSE IF text[1] = "R" THEN <<"r">> \o Tail(text)
    ELSE text

RECURSIVE rstrip(_)
rstrip(text) ==
    IF text = <<>> THEN <<>>
    ELSE IF text[Len(text)] \in Whitespace THEN rstrip(SubSeq(text, 1, Len(text) - 1))
    ELSE text

strip(text) == lstrip(rstrip(text))

\* None for Optional[int]; positions are chunk indexes from 1
NonePos == 0

First(S) == IF S = {} THEN NonePos ELSE Min(S)

\* the chunks of text that lie within text[:max_search_length]
InSearch(text) == {i \in 1..Len(text) : CharsUpTo(text, i) <= max_search_length}

Where(text, chunks) == {i \in 1..Len(text) : text[i] \in chunks}

\* _find_first_divider that takes the earliest marker of any kind
find_first_divider_earliest(text) ==
    First(Where(text, {"E", "F", "H", "R"}))

\* _find_first_divider(text), lazy=False
find_first_divider(text) ==
    LET search == InSearch(text)
        exact == Where(text, {"E"}) \cap search
        fast == Where(text, {"F", "E"}) \cap search
        third == Where(text, {"H"})
        quote == Where(text, {"R"}) \cap search
    IN  IF text = <<>> \/ len(text) < min_text_length THEN NonePos
        ELSE IF exact # {} THEN Min(exact)
        ELSE IF fast # {} THEN Min(fast)
        ELSE IF third \cap search # {} THEN Min(third \cap search)
        ELSE IF quote # {} THEN Min(quote)
        ELSE IF len(text) > max_search_length /\ third # {} THEN Min(third)
        ELSE NonePos

\* email_pattern.sub(r'\1(\2)', text)
email_pattern_sub(text) ==
    [i \in 1..Len(text) |-> IF text[i] = "A" THEN "a" ELSE text[i]]

\* what the parse and the clean-up steps make of the text: markup reduced to
\* its text, runs of blanks collapsed, the ends stripped
reduce_html(text) ==
    strip([i \in 1..Len(text) |->
              CASE text[i] = "T" -> "x"
                [] text[i] = "s" -> "c"
                [] OTHER -> text[i]])

\* an HTML reduction that parses every text
convert_html_to_text_always(text, soup_raises) ==
    LET substituted == email_pattern_sub(text)
    IN  IF soup_raises THEN substituted ELSE reduce_html(substituted)

\* _convert_html_to_text; soup_raises: the parser raises an exception
convert_html_to_text(text, soup_raises) ==
    IF Where(text, {"T", "A", "M"}) = {} \/ Where(text, {"T", "A", "M", "R"}) = {}
    THEN text
    ELSE IF Where(text, {"T", "A"}) = {}
    THEN text
    ELSE LET substituted == email_pattern_sub(text)
         IN  IF soup_raises THEN substituted ELSE reduce_html(substituted)

\* clean_body: the text it returns for a divider position
truncate(cleaned_html, first_divider_pos) ==
    IF first_divider_pos # NonePos
    THEN strip(strip(SubSeq(cleaned_html, 1, first_divider_pos - 1)))
    ELSE strip(cleaned_html)

IdleDoc ==
    [pc |-> "idle",
     body |-> <<>>,
     soup_raises |-> FALSE,
     cleaned_html |-> <<>>,
     first_divider_pos |-> NonePos,
     cleaned_text |-> <<>>]

\* --------------------------------------- matai_v2: _convert_table_to_ascii
\* a <tr>: whether it holds a <th>, and the texts of its <td>/<th> cells
TableRow(th, cells) == [th |-> th, cells |-> cells]

CellTexts == {"a", "b"}

\* the rows of a table: a row without cells holds no <th>
TableRows ==
    {TableRow(th, cells) :
        th \in BOOLEAN, cells \in SeqsUpTo(CellTexts, MaxCells)}
    \ {TableRow(TRUE, <<>>)}

\* the loop over table.find_all('tr'): [header_row, rows]; a header_row of
\* <<>> stands for None (a row with cells is never empty)
RECURSIVE collect_rows(_, _, _)
collect_rows(trs, header_row, rows) ==
    IF trs = <<>> THEN [header_row |-> header_row, rows |-> rows]
    ELSE LET row == Head(trs)
         IN  IF row.cells = <<>>
             THEN collect_rows(Tail(trs), header_row, rows)
             ELSE IF row.th /\ header_row = <<>>
             THEN collect_rows(Tail(trs), row.cells, rows)
             ELSE collect_rows(Tail(trs), header_row, Append(rows, row.cells))

\* if not header_row and rows: header_row = rows.pop(0)
pick_header(c) ==
    IF c.header_row = <<>> /\ c.rows # <<>>
    THEN [header_row |-> Head(c.rows), rows |-> Tail(c.rows)]
    ELSE c

\* a row brought to the header's number of columns
fit_row(row, column_count) ==
    IF Len(row) = column_count THEN row
    ELSE IF Len(row) < column_count
    THEN row \o [i \in 1..(column_count - Len(row)) |-> ""]
    ELSE SubSeq(row, 1, column_count)

valid_rows(rows, column_count) ==
    [i \in 1..Len(rows) |-> fit_row(rows[i], column_count)]

\* PrettyTable.field_names = header_row raises when two names are equal
field_names_raises(header_row) ==
    \E i, j \in 1..Len(header_row) : i # j /\ header_row[i] = header_row[j]

\* what _convert_table_to_ascii returns: "" or the table PrettyTable renders
EmptyString == [kind |-> "empty", field_names |-> <<>>, rows |-> <<>>]

AsciiTable(field_names, rows) ==
    [kind |-> "table", field_names |-> field_names, rows |-> rows]

IdleTable ==
    [pc |-> "idle", trs |-> <<>>, header_row |-> <<>>, rows |-> <<>>,
     result |-> EmptyString]

\* ------------------------------------------- TrelloBoardManager.setup
ListNames == {"Mantis", "Inbox", "Todo"}

Managers == {"m1", "m2"}

\* the lists of the board after setup: create_list(board_id, "Mantis") when
\* no list is named app_board (a list's id is its position)
setup_lists(app_board, lists) ==
    IF InSeq(app_board, lists) THEN lists ELSE Append(lists, "Mantis")

\* the list_id setup stores: the first list named app_board, or the new list
setup_list_id(app_board, lists) ==
    IF InSeq(app_board, lists)
    THEN Min({i \in 1..Len(lists) : lists[i] = app_board})
    ELSE Len(lists) + 1

\* a board and its managers: _app_board, the board's lists, each manager's
\* _list_id (0 is None), and how many setups ran and how many lists they made
IdleTrello ==
    [app_board |-> AppBoard, lists |-> <<>>, list_id |-> [m \in Managers |-> 0],
     setups |-> 0, created |-> 0]

\* the offset of a tzinfo from UTC, in hours
UtcOffset(z) == IF z = "+02:00" THEN 2 ELSE 0

\* the point in time a datetime denotes (a naive one read as UTC)
Instant(dt) == dt.wall - UtcOffset(dt.tzinfo)

\* ------------------------------------------------ matai_v2 cli: run
\* how often a message id occurs in a fetch
Occurrences(emails, m) == Cardinality({i \in 1..Len(emails) : emails[i] = m})

\* email.timestamp of the messages: aware datetimes in the zone of the
\* machine, which is the zone a naive datetime.now() is read in
MsgDates == {DateTime(w, "+00:00") : w \in 0..1}

\* the rows the table may hold before the first run
InitialTables ==
    {t \in SUBSET {ProcessedEmails(m, isoformat(d), s, isoformat(DateTime(0, "naive"))) :
                      m \in MsgIds, d \in MsgDates, s \in ProcessStates} :
        \A r1, r2 \in t : r1.message_id = r2.message_id => r1 = r2}

\* start_date = datetime.now() - timedelta(days=days)
start_date_of(clock) == DateTime(clock - days_default, "naive")

\* the record is written only for a message with items
run_store_if_items(table, message_id, timestamp, items_num, clock) ==
    IF items_num = 0 THEN table
    ELSE insert_or_replace(table,
                           ProcessedEmails(message_id, isoformat(timestamp), "PROCESSED",
                                           isoformat(DateTime(clock, "naive"))))

\* processed_emails_store.store(email.message_id, email.timestamp, 'PROCESSED'),
\* whatever process_email returned (items_num is the number of its items);
\* the process date is the clock of the call
run_store(table, message_id, timestamp, items_num, clock) ==
    insert_or_replace(table,
                      ProcessedEmails(message_id, isoformat(timestamp), "PROCESSED",
                                      isoformat(DateTime(clock, "naive"))))

\* the runs of the command: the clock, the timestamps of the messages, the
\* table PROCESSED_EMAIL, and for the current (or last) run its start date,
\* the table it found, the messages read_messages returned and those still
\* to be visited, how often each message was handed to process_email and how
\* often create_tasks was called with items for it, the number of items of
\* the last extraction, the messages whose latest extraction returned no
\* item, and how the run ended
IdleCli ==
    [pc |-> "idle", runs |-> 0, clock |-> 0,
     timestamp |-> [m \in MsgIds |-> DateTime(0, "+00:00")],
     table |-> {}, start_date |-> NoneDate, table_at_start |-> {},
     emails |-> <<>>, pending |-> <<>>,
     extracted |-> [m \in MsgIds |-> 0],
     dispatched |-> [m \in MsgIds |-> 0],
     last_items |-> 0, no_items |-> {}, outcome |-> "none"]

\* ----------------------------- two executions of execute() side by side
Executions == {"e1", "e2"}

\* new_emails is computed once, from the rows list_email_contents returned
\* before the loop; rows written later do not change it
RestAfter(rest, stored) == rest

\* for each execution: its step, the new_emails still to be yielded, the
\* message in hand and the messages it dispatched; for both: the mailbox,
\* the ids with a row in the store, and whether the two ever ran together
IdleTwo ==
    [pc |-> [e \in Executions |-> "idle"],
     new_emails |-> [e \in Executions |-> <<>>],
     email |-> [e \in Executions |-> 0],
     dispatched |-> [e \in Executions |-> {}],
     mailbox |-> {},
     stored |-> {},
     overlapped |-> FALSE]

PipelineIdle ==
    /\ now = 0
    /\ received = [m \in MsgIds |-> NoneTime]
    /\ run_configurations = <<>>
    /\ execution_reports = <<>>
    /\ email_contents = [m \in MsgIds |-> 0]
    /\ action_items_tbl = [m \in MsgIds |-> <<>>]
    /\ cards = [m \in MsgIds |-> <<>>]
    /\ board_lists = <<>>
    /\ list_id = 0
    /\ filters = <<>>
    /\ pc = "idle"
    /\ run_configuration = NewRunConfiguration
    /\ new_emails = <<>>
    /\ email = 0
    /\ ext = IdleExt
    /\ action_items = <<>>
    /\ filtered_action_items = <<>>
    /\ managed_emails_num = 0
    /\ generated_action_items = 0
    /\ runs = 0
    /\ hist = InitHist

\* the extraction loops, the single item and the EmailStore at rest
SideIdle ==
    /\ ex_max = 0
    /\ ex1 = IdleExt
    /\ ex2 = IdleExt
    /\ ex_last = Outcome("none", <<>>)
    /\ item = IdleItem
    /\ processed_email = {}
    /\ store_hist = InitStoreHist

MoreIdle ==
    /\ content = IdleContent
    /\ doc = IdleDoc
    /\ tbl = IdleTable
    /\ trello = IdleTrello
    /\ cli = IdleCli
    /\ two = IdleTwo

PipeIdle ==
    /\ now = 0
    /\ received = [m \in MsgIds |-> NoneTime]
    /\ run_configurations = <<>>
    /\ execution_reports = <<>>
    /\ email_contents = [m \in MsgIds |-> 0]
    /\ action_items_tbl = [m \in MsgIds |-> <<>>]
    /\ cards = [m \in MsgIds |-> <<>>]
    /\ board_lists = <<>>
    /\ list_id = 0
    /\ filters \in FilterChoices
    /\ pc = "idle"
    /\ run_configuration = NewRunConfiguration
    /\ new_emails = <<>>
    /\ email = 0
    /\ ext = IdleExt
    /\ action_items = <<>>
    /\ filtered_action_items = <<>>
    /\ managed_emails_num = 0
    /\ generated_action_items = 0
    /\ runs = 0
    /\ hist = InitHist
    /\ ex_max = 0
    /\ ex1 = IdleExt
    /\ ex2 = IdleExt
    /\ ex_last = Outcome("none", <<>>)
    /\ item = IdleItem
    /\ processed_email = {}
    /\ store_hist = InitStoreHist
    /\ MoreIdle

Init == PipeIdle

\* SpecExtract: an extraction is called with some max_retries; the pipeline
\* stays idle
InitExtract ==
    /\ now = 0
    /\ received = [m \in MsgIds |-> NoneTime]
    /\ run_configurations = <<>>
    /\ execution_reports = <<>>
    /\ email_contents = [m \in MsgIds |-> 0]
    /\ action_items_tbl = [m \in MsgIds |-> <<>>]
    /\ cards = [m \in MsgIds |-> <<>>]
    /\ board_lists = <<>>
    /\ list_id = 0
    /\ filters = <<>>
    /\ pc = "idle"
    /\ run_configuration = NewRunConfiguration
    /\ new_emails = <<>>
    /\ email = 0
    /\ ext = IdleExt
    /\ action_items = <<>>
    /\ filtered_action_items = <<>>
    /\ managed_emails_num = 0
    /\ generated_action_items = 0
    /\ runs = 0
    /\ hist = InitHist
    /\ ex_max \in 0..MaxRetriesBound
    /\ ex1 = InitExt
    /\ ex2 = InitExt
    /\ ex_last = Outcome("none", <<>>)
    /\ item = IdleItem
    /\ processed_email = {}
    /\ store_hist = InitStoreHist
    /\ MoreIdle

\* ------------------------------------------------------- the environment
\* A run reads the clock and the mailbox twice: at its fetch and at its final
\* datetime.now().  Seconds pass and messages arrive between runs (pc "idle")
\* and during a run between those two points (observed at pc "finish").
EnvStep == pc \in {"idle", "finish"}

\* a tick passes
Tick ==
    /\ EnvStep
    /\ now < MaxTime
    /\ now' = now + 1
    /\ UNCHANGED <<received, run_configurations, execution_reports, email_contents,
                   action_items_tbl, cards, board_lists, list_id, filters, pc,
                   run_configuration, new_emails, email, ext, action_items,
                   filtered_action_items, managed_emails_num, generated_action_items,
                   runs, hist, sideVars>>

\* a message reaches the mailbox; its received time is the current second
Deliver(m) ==
    /\ EnvStep
    /\ received[m] = NoneTime
    /\ received' = [received EXCEPT ![m] = strftime(now)]
    /\ UNCHANGED <<now, run_configurations, execution_reports, email_contents,
                   action_items_tbl, cards, board_lists, list_id, filters, pc,
                   run_configuration, new_emails, email, ext, action_items,
                   filtered_action_items, managed_emails_num, generated_action_items,
                   runs, hist, sideVars>>

\* ------------------------------------------------------------ execute()
\* the generator moves to the next new message, or is exhausted; the loop
\* variables of execute() keep the last yielded pair until the next yield
Advance(rest) ==
    /\ new_emails' = IF rest = <<>> THEN <<>> ELSE Tail(rest)
    /\ email' = IF rest = <<>> THEN 0 ELSE Head(rest)
    /\ ext' = IF rest = <<>> THEN IdleExt ELSE InitExt
    /\ pc' = IF rest = <<>> THEN "finish" ELSE "extract"

\* an exception leaves execute(): nothing after the raising statement runs
Abort_persisting(step) ==
    /\ pc' = "idle"
    /\ new_emails' = <<>>
    /\ email' = 0
    /\ action_items' = <<>>
    /\ filtered_action_items' = <<>>
    /\ hist' = [hist EXCEPT !.outcome = "aborted", !.abort_step = step,
                            !.abort_email = email]
    /\ run_configurations' =
          run_configuration_store(run_configurations,
                                  [run_configuration EXCEPT !.last_run_time = now], now)
    /\ UNCHANGED <<execution_reports, run_configuration, managed_emails_num,
                   generated_action_items, runs, now, received, filters, sideVars>>

Abort(step) ==
    /\ pc' = "idle"
    /\ new_emails' = <<>>
    /\ email' = 0
    /\ action_items' = <<>>
    /\ filtered_action_items' = <<>>
    /\ hist' = [hist EXCEPT !.outcome = "aborted", !.abort_step = step,
                            !.abort_email = email]
    /\ UNCHANGED <<run_configurations, execution_reports, run_configuration,
                   managed_emails_num, generated_action_items, runs, now, received,
                   filters, sideVars>>

\* execute() up to the call of process_new_emails: read the run history
ExecuteStart ==
    /\ pc = "idle"
    /\ runs < MaxRuns
    /\ runs' = runs + 1
    /\ run_configuration' = retrieve_last(run_configurations)
    /\ managed_emails_num' = 0
    /\ generated_action_items' = 0
    /\ list_id' = 0
    /\ pc' = "fetch"
    /\ hist' = [hist EXCEPT !.passed = retrieve_last(run_configurations).last_run_time,
                            !.prev_passed = hist.passed,
                            !.prev_gated_out = hist.run.gated_out,
                            !.run = EmptyRun,
                            !.start_configs = run_configurations,
                            !.start_reports = Len(execution_reports)]
    /\ UNCHANGED <<now, received, run_configurations, execution_reports, email_contents,
                   action_items_tbl, cards, board_lists, filters, new_emails, email,
                   ext, action_items, filtered_action_items, sideVars>>

\* process_new_emails up to its first yield: fetch, filter, dedup
Fetch ==
    /\ pc = "fetch"
    /\ LET cutoff == datetime_filter(run_configuration.last_run_time)
       IN  \E emails \in Orderings(read_messages(cutoff)) :
             LET new == NewEmails(emails, cutoff)
             IN  /\ Advance(new)
                 /\ action_items' = <<>>
                 /\ filtered_action_items' = <<>>
                 /\ hist' = [hist EXCEPT !.cutoff = cutoff,
                                         !.run.mailbox = emails,
                                         !.run.kept = apply_filters(emails, filters),
                                         !.run.batch = new,
                                         !.run.fetched = read_messages(cutoff),
                                         !.run.known =
                                             {m \in MsgIds : email_contents[m] > 0},
                                         !.run.new_set = {new[i] : i \in 1..Len(new)}]
    /\ UNCHANGED <<now, received, run_configurations, execution_reports, email_contents,
                   action_items_tbl, cards, board_lists, list_id, filters,
                   run_configuration, managed_emails_num, generated_action_items,
                   runs, sideVars>>

\* read_messages raises (not authenticated, network)
FetchRaises ==
    /\ pc = "fetch"
    /\ Abort("fetch")
    /\ ext' = IdleExt
    /\ UNCHANGED <<email_contents, action_items_tbl, cards, board_lists, list_id>>

\* a message without a qualifying item gets a row all the same
GatedOutContents_marked(m) == [email_contents EXCEPT ![m] = @ + 1]

\* execute(): `if filtered_action_items:` has no else branch, a message
\* without a qualifying item leaves the store as it is
GatedOutContents(m) == email_contents

\* one attempt of process_email for the current message, and what follows it
\* inside execute(): the next attempt, the exception leaving the run, or the
\* yield of (email, action_items), the confidence gate and the counters
\* the pair is dropped and the generator goes on with the next message
ExtractRaised_skipping(st) ==
    /\ Advance(new_emails)
    /\ UNCHANGED <<email_contents, action_items, filtered_action_items, hist,
                   run_configurations, execution_reports, run_configuration,
                   managed_emails_num, generated_action_items, runs, now, received,
                   filters, sideVars>>

\* process_email raised after its last attempt: the exception leaves the
\* generator and execute()
ExtractRaised(st) ==
    /\ ext' = st
    /\ Abort("extract")
    /\ UNCHANGED email_contents

LLMCall(o) ==
    /\ pc = "extract"
    /\ ext.status = "running"
    /\ LET st == process_email_attempt(ext, o, email, max_retries_default)
           kept == Gate(st.action_items)
       IN  CASE st.status = "running" ->
                    /\ ext' = st
                    /\ UNCHANGED <<email_contents, pc, new_emails, email, action_items,
                                filtered_action_items, hist, run_configurations,
                                execution_reports, run_configuration,
                                managed_emails_num, generated_action_items, runs,
                                now, received, filters, sideVars>>
                [] st.status = "raised" -> ExtractRaised(st)
                [] st.status = "returned" /\ kept # <<>> ->
                    /\ ext' = st
                    /\ action_items' = st.action_items
                    /\ filtered_action_items' = kept
                    /\ managed_emails_num' = managed_emails_num + 1
                    /\ generated_action_items' = generated_action_items + Len(kept)
                    /\ pc' = "dispatch"
                    /\ hist' = [hist EXCEPT !.run.extracted = @ \cup {email},
                                            !.run.yielded = Append(@, email),
                                            !.run.qual_items =
                                                @ + Len(AtOrAbove(st.action_items)),
                                            !.run.qualified = @ \cup {email}]
                    /\ UNCHANGED <<email_contents, new_emails, email,
                                   run_configurations, execution_reports,
                                   run_configuration, runs, now, received, filters,
                                   sideVars>>
                [] st.status = "returned" /\ kept = <<>> ->
                    /\ Advance(new_emails)
                    /\ action_items' = st.action_items
                    /\ filtered_action_items' = kept
                    /\ email_contents' = GatedOutContents(email)
                    /\ hist' = [hist EXCEPT !.run.extracted = @ \cup {email},
                                            !.run.yielded = Append(@, email),
                                            !.run.qual_items =
                                                @ + Len(AtOrAbove(st.action_items)),
                                            !.run.gated_out = @ \cup {email}]
                    /\ UNCHANGED <<managed_emails_num, generated_action_items,
                                   run_configurations, execution_reports,
                                   run_configuration, runs, now, received, filters,
                                   sideVars>>
    /\ UNCHANGED <<action_items_tbl, cards, board_lists, list_id>>

\* IntegrationManager.setup: use the list named app_board, create "Mantis"
\* when the board has none
SetupLists(lists) == IF InSeq(AppBoard, lists) THEN lists ELSE Append(lists, "Mantis")

SetupListId(lists) ==
    IF InSeq(AppBoard, lists)
    THEN Min({i \in 1..Len(lists) : lists[i] = AppBoard})
    ELSE Len(lists) + 1

\* create_tasks raises, but the exception is swallowed and execute() goes on
CreateTasksRaises_swallowed(k, setup_done) ==
    /\ pc = "dispatch"
    /\ k < Len(filtered_action_items)
    /\ (k > 0 \/ list_id # 0) => setup_done
    /\ cards' = [cards EXCEPT ![email] = @ \o SubSeq(filtered_action_items, 1, k)]
    /\ board_lists' = IF list_id = 0 /\ setup_done THEN SetupLists(board_lists)
                      ELSE board_lists
    /\ list_id' = IF list_id = 0 /\ setup_done THEN SetupListId(board_lists) ELSE list_id
    /\ pc' = "store"
    /\ UNCHANGED <<email_contents, action_items_tbl, ext, new_emails, email,
                   action_items, filtered_action_items, hist, run_configurations,
                   execution_reports, run_configuration, managed_emails_num,
                   generated_action_items, runs, now, received, filters, sideVars>>

\* create_tasks raises and the message is recorded before the run ends
CreateTasksRaises_marking(k, setup_done) ==
    /\ pc = "dispatch"
    /\ k < Len(filtered_action_items)
    /\ (k > 0 \/ list_id # 0) => setup_done
    /\ cards' = [cards EXCEPT ![email] = @ \o SubSeq(filtered_action_items, 1, k)]
    /\ board_lists' = IF list_id = 0 /\ setup_done THEN SetupLists(board_lists)
                      ELSE board_lists
    /\ list_id' = IF list_id = 0 /\ setup_done THEN SetupListId(board_lists) ELSE list_id
    /\ email_contents' = [email_contents EXCEPT ![email] = @ + 1]
    /\ Abort("dispatch")
    /\ UNCHANGED <<action_items_tbl, ext>>

\* IntegrationManager.create_tasks raises after k cards were created (in
\* setup when k = 0 and setup_done is false); the exception leaves execute()
CreateTasksRaises(k, setup_done) ==
    /\ pc = "dispatch"
    /\ k < Len(filtered_action_items)
    /\ (k > 0 \/ list_id # 0) => setup_done
    /\ cards' = [cards EXCEPT ![email] = @ \o SubSeq(filtered_action_items, 1, k)]
    /\ board_lists' = IF list_id = 0 /\ setup_done THEN SetupLists(board_lists)
                      ELSE board_lists
    /\ list_id' = IF list_id = 0 /\ setup_done THEN SetupListId(board_lists) ELSE list_id
    /\ Abort("dispatch")
    /\ UNCHANGED <<email_contents, action_items_tbl, ext>>

\* IntegrationManager.create_tasks returns: one card per filtered item
CreateTasks ==
    /\ pc = "dispatch"
    /\ cards' = [cards EXCEPT ![email] = @ \o filtered_action_items]
    /\ board_lists' = IF list_id = 0 THEN SetupLists(board_lists) ELSE board_lists
    /\ list_id' = IF list_id = 0 THEN SetupListId(board_lists) ELSE list_id
    /\ pc' = "store"
    /\ hist' = [hist EXCEPT !.dispatched_ok[email] = @ + 1,
                            !.run.dispatched = @ \cup {email}]
    /\ UNCHANGED <<now, received, run_configurations, execution_reports, email_contents,
                   action_items_tbl, filters, run_configuration, new_emails, email,
                   ext, action_items, filtered_action_items, managed_emails_num,
                   generated_action_items, runs, sideVars>>

\* the generator goes on to the next message while the rows of the message
\* in hand are still to be written
StoreProcessed_deferred ==
    /\ pc = "store"
    /\ Advance(new_emails)
    /\ UNCHANGED <<now, received, run_configurations, execution_reports, cards,
                   board_lists, list_id, filters, run_configuration, action_items,
                   filtered_action_items, managed_emails_num, generated_action_items,
                   runs, sideVars, email_contents, action_items_tbl, hist>>

\* EmailManager.store_processed_emails([actionable_item]) returns: the message
\* row, then one row per filtered item (the items of the model carry no
\* owners or waiters, so no participant is created)
StoreProcessed ==
    /\ pc = "store"
    /\ email_contents' = [email_contents EXCEPT ![email] = @ + 1]
    /\ action_items_tbl' = [action_items_tbl EXCEPT ![email] = @ \o filtered_action_items]
    /\ Advance(new_emails)
    /\ hist' = [hist EXCEPT !.run.stored = @ \cup {email}]
    /\ UNCHANGED <<now, received, run_configurations, execution_reports, cards,
                   board_lists, list_id, filters, run_configuration, action_items,
                   filtered_action_items, managed_emails_num, generated_action_items,
                   runs, sideVars>>

\* store_processed_emails raises: before the message row is written
\* (inserted false), or after it and k item rows (each DAO call commits on its
\* own).  A second row for a stored message id may be such a failure.
StoreRaises(k, inserted) ==
    /\ pc = "store"
    /\ k < Len(filtered_action_items)
    /\ k > 0 => inserted
    /\ email_contents' = [email_contents EXCEPT ![email] = IF inserted THEN @ + 1 ELSE @]
    /\ action_items_tbl' =
          [action_items_tbl EXCEPT ![email] = @ \o SubSeq(filtered_action_items, 1, k)]
    /\ Abort("store")
    /\ UNCHANGED <<cards, board_lists, list_id, ext>>

\* the value written as last_run_time at the end of execute(): the start of
\* the window instead of the current time
FinishTime_stale == hist.cutoff

\* run_configuration.last_run_time = datetime.now()
FinishTime == now

\* a report with the two counters exchanged
build_execution_report_swapped(report_id, configuration_id, emails_num, items_num) ==
    [report_id |-> report_id,
     configuration_id |-> configuration_id,
     run_status |-> "SUCCESS",
     retrieved_emails |-> items_num,
     generated_action_items |-> emails_num]

\* _build_execution_report, with the id execution_report_dao.store gives it
build_execution_report(report_id, configuration_id, emails_num, items_num) ==
    [report_id |-> report_id,
     configuration_id |-> configuration_id,
     run_status |-> "SUCCESS",
     retrieved_emails |-> emails_num,
     generated_action_items |-> items_num]

\* after the loop: persist the run configuration, then the execution report
ExecuteFinish ==
    /\ pc = "finish"
    /\ LET rc == [run_configuration EXCEPT !.last_run_time = FinishTime]
           id == stored_configuration_id(run_configurations, rc)
       IN  /\ run_configurations' = run_configuration_store(run_configurations, rc, now)
           /\ run_configuration' = [rc EXCEPT !.configuration_id = id]
           /\ execution_reports' =
                 Append(execution_reports,
                        build_execution_report(Len(execution_reports) + 1, id,
                                               managed_emails_num,
                                               generated_action_items))
           /\ hist' = [hist EXCEPT !.outcome = "completed", !.abort_step = "none",
                                   !.abort_email = 0,
                                   !.run.persisted = @ + 1,
                                   !.finish_clock = now,
                                   !.last_persisted = rc.last_run_time]
    /\ pc' = "idle"
    /\ action_items' = <<>>
    /\ filtered_action_items' = <<>>
    /\ UNCHANGED <<now, received, email_contents, action_items_tbl, cards, board_lists,
                   list_id, filters, new_emails, email, ext, managed_emails_num,
                   generated_action_items, runs, sideVars>>

Next ==
    \/ Tick
    \/ \E m \in MsgIds : Deliver(m)
    \/ ExecuteStart
    \/ Fetch
    \/ FetchRaises
    \/ \E o \in PipeOutcomes : LLMCall(o)
    \/ CreateTasks
    \/ \E k \in 0..Len(filtered_action_items), s \in BOOLEAN : CreateTasksRaises(k, s)
    \/ StoreProcessed
    \/ \E k \in 0..Len(filtered_action_items), s \in BOOLEAN : StoreRaises(k, s)
    \/ ExecuteFinish

Spec == Init /\ [][Next]_vars

\* --------------------------------------------- the extraction loops alone
\* the model client answers one more call; both loops see the same outcome
ExAttempt(o) ==
    /\ ex1.status = "running" \/ ex2.status = "running"
    /\ ex1' = IF ex1.status = "running"
              THEN process_email_attempt(ex1, o, 1, ex_max) ELSE ex1
    /\ ex2' = IF ex2.status = "running"
              THEN extract_action_items_attempt(ex2, o, 1, ex_max) ELSE ex2
    /\ ex_last' = o
    /\ UNCHANGED <<ex_max, pipeVars, item, storeVars, moreVars>>

NextExtract == \E o \in ExtractOutcomes : ExAttempt(o)

SpecExtract == InitExtract /\ [][NextExtract]_vars

\* ------------------------------------------ SpecItem: one item alone
InitItem ==
    /\ now = 0
    /\ received = [m \in MsgIds |-> NoneTime]
    /\ run_configurations = <<>>
    /\ execution_reports = <<>>
    /\ email_contents = [m \in MsgIds |-> 0]
    /\ action_items_tbl = [m \in MsgIds |-> <<>>]
    /\ cards = [m \in MsgIds |-> <<>>]
    /\ board_lists = <<>>
    /\ list_id = 0
    /\ filters = <<>>
    /\ pc = "idle"
    /\ run_configuration = NewRunConfiguration
    /\ new_emails = <<>>
    /\ email = 0
    /\ ext = IdleExt
    /\ action_items = <<>>
    /\ filtered_action_items = <<>>
    /\ managed_emails_num = 0
    /\ generated_action_items = 0
    /\ runs = 0
    /\ hist = InitHist
    /\ ex_max = 0
    /\ ex1 = IdleExt
    /\ ex2 = IdleExt
    /\ ex_last = Outcome("none", <<>>)
    /\ \E t \in ItemTypes, c \in ItemConfidences, d \in DueDateValues,
          w \in Hours, z \in TzInfos :
          item = [IdleItem EXCEPT !.pc = "parse",
                                  !.item_json = ItemJsonWithDate(t, c, d),
                                  !.email_date = DateTime(w, z)]
    /\ processed_email = {}
    /\ store_hist = InitStoreHist
    /\ MoreIdle

\* due_date = self._parse_date(item_json.get("due_date"))
ParseDate ==
    /\ item.pc = "parse"
    /\ item' = IF parse_date_raises(item.item_json.due_date)
               THEN [item EXCEPT !.pc = "raised", !.error = "TypeError"]
               ELSE [item EXCEPT !.pc = "sanitarize",
                                 !.parsed = parse_date(item.item_json.due_date)]
    /\ UNCHANGED <<pipeVars, exVars, storeVars, moreVars>>

\* due_date = self._sanitarize_date(due_date, email_date)
SanitarizeDate ==
    /\ item.pc = "sanitarize"
    /\ item' = [item EXCEPT !.pc = "map",
                            !.due_date = sanitarize_date(item.parsed, item.email_date)]
    /\ UNCHANGED <<pipeVars, exVars, storeVars, moreVars>>

\* action_items.append(self.map_action(due_date, message_id, item_json))
MapAction ==
    /\ item.pc = "map"
    /\ item' = IF from_string_raises(GetType(item.item_json))
               THEN [item EXCEPT !.pc = "raised", !.error = "ValueError"]
               ELSE [item EXCEPT !.pc = "appended",
                                 !.action_item = map_action(1, item.item_json)]
    /\ UNCHANGED <<pipeVars, exVars, storeVars, moreVars>>

NextItem ==
    \/ ParseDate
    \/ SanitarizeDate
    \/ MapAction

SpecItem == InitItem /\ [][NextItem]_vars

\* ------------------------------------------- SpecStore: EmailStore alone
\* EmailStore.__init__ on a new database file: _create_table, no row
InitStore ==
    /\ now = 0
    /\ received = [m \in MsgIds |-> NoneTime]
    /\ run_configurations = <<>>
    /\ execution_reports = <<>>
    /\ email_contents = [m \in MsgIds |-> 0]
    /\ action_items_tbl = [m \in MsgIds |-> <<>>]
    /\ cards = [m \in MsgIds |-> <<>>]
    /\ board_lists = <<>>
    /\ list_id = 0
    /\ filters = <<>>
    /\ pc = "idle"
    /\ run_configuration = NewRunConfiguration
    /\ new_emails = <<>>
    /\ email = 0
    /\ ext = IdleExt
    /\ action_items = <<>>
    /\ filtered_action_items = <<>>
    /\ managed_emails_num = 0
    /\ generated_action_items = 0
    /\ runs = 0
    /\ hist = InitHist
    /\ ex_max = 0
    /\ ex1 = IdleExt
    /\ ex2 = IdleExt
    /\ ex_last = Outcome("none", <<>>)
    /\ item = IdleItem
    /\ processed_email = {}
    /\ store_hist = InitStoreHist
    /\ MoreIdle

\* time passes between two calls
StoreTick ==
    /\ now < MaxTime
    /\ now' = now + 1
    /\ UNCHANGED <<received, run_configurations, execution_reports, email_contents,
                   action_items_tbl, cards, board_lists, list_id, filters, pc,
                   run_configuration, new_emails, email, ext, action_items,
                   filtered_action_items, managed_emails_num, generated_action_items,
                   runs, hist, sideVars>>

\* EmailStore.store(message_id, message_date, process_state, process_date)
Store(message_id, message_date, process_state, process_date) ==
    LET date == IF process_date = NoneDate THEN DateTime(now, "naive") ELSE process_date
        row == ProcessedEmails(message_id, isoformat(message_date), process_state,
                               isoformat(date))
    IN  /\ processed_email' = insert_or_replace(processed_email, row)
        /\ store_hist' =
              [store_hist EXCEPT
                  !.last[message_id] =
                      StoreCall(message_id, message_date, process_state,
                                process_date, now),
                  !.replaced[message_id] =
                      @ \/ \E r \in processed_email :
                              r.message_id = message_id /\ r # row,
                  !.over_processed[message_id] =
                      was_processed(processed_email, message_id, "PROCESSED")]
        /\ UNCHANGED <<pipeVars, exVars, item, moreVars>>

NextStore ==
    \/ StoreTick
    \/ \E m \in MsgIds, d \in StoreDates, s \in ProcessStates, p \in ProcessDates :
          Store(m, d, s, p)

SpecStore == InitStore /\ [][NextStore]_vars

\* ----------------------------------------- SpecBody: EmailContent alone
\* EmailContent(..., raw_content=...): _body and _clean_body are None
InitBody ==
    /\ PipelineIdle
    /\ SideIdle
    /\ \E raw \in Bodies : content = [IdleContent EXCEPT !.raw_content = raw]
    /\ doc = IdleDoc
    /\ tbl = IdleTable
    /\ trello = IdleTrello
    /\ cli = IdleCli
    /\ two = IdleTwo

\* x = content.body
GetBody ==
    /\ content' = after_body(content)
    /\ content' # content
    /\ UNCHANGED <<pipeVars, exVars, item, storeVars, doc, tbl, trello, cli, two>>

\* content.body = value
SetBody(value) ==
    /\ content' = [body_setter(content, value) EXCEPT !.parser_calls = 0, !.reads = 0]
    /\ UNCHANGED <<pipeVars, exVars, item, storeVars, doc, tbl, trello, cli, two>>

\* content.raw_content = value (a plain dataclass field)
SetRawContent(value) ==
    /\ content' = [content EXCEPT !.raw_content = value]
    /\ UNCHANGED <<pipeVars, exVars, item, storeVars, doc, tbl, trello, cli, two>>

\* x = content.clean_body
GetCleanBody ==
    /\ LET c == after_clean_body(content)
       IN  content' = [c EXCEPT !.returned = c.clean_body_,
                                !.reads = Min({@ + 1, MaxReads})]
    /\ UNCHANGED <<pipeVars, exVars, item, storeVars, doc, tbl, trello, cli, two>>

NextBody ==
    \/ GetBody
    \/ \E value \in Bodies : SetBody(value)
    \/ \E value \in Bodies : SetRawContent(value)
    \/ GetCleanBody

SpecBody == InitBody /\ [][NextBody]_vars

\* ---------------------------------------- SpecClean: clean_body alone
InitClean ==
    /\ PipelineIdle
    /\ SideIdle
    /\ content = IdleContent
    /\ \E chunks \in SeqsUpTo(BodyChunks, MaxChunks), raises \in BOOLEAN :
          doc = [IdleDoc EXCEPT !.pc = "start", !.body = chunks, !.soup_raises = raises]
    /\ tbl = IdleTable
    /\ trello = IdleTrello
    /\ cli = IdleCli
    /\ two = IdleTwo

\* if not body: return ""
EmptyBody ==
    /\ doc.pc = "start"
    /\ doc.body = <<>>
    /\ doc' = [doc EXCEPT !.pc = "done", !.cleaned_text = <<>>]
    /\ UNCHANGED <<pipeVars, exVars, item, storeVars, content, tbl, trello, cli, two>>

\* cleaned_html = _convert_html_to_text(body)
ConvertHtmlToText ==
    /\ doc.pc = "start"
    /\ doc.body # <<>>
    /\ doc' = [doc EXCEPT !.pc = "find",
                          !.cleaned_html = convert_html_to_text(doc.body, doc.soup_raises)]
    /\ UNCHANGED <<pipeVars, exVars, item, storeVars, content, tbl, trello, cli, two>>

\* first_divider_pos = _find_first_divider(cleaned_html)
FindFirstDivider ==
    /\ doc.pc = "find"
    /\ doc' = [doc EXCEPT !.pc = "cut",
                          !.first_divider_pos = find_first_divider(doc.cleaned_html)]
    /\ UNCHANGED <<pipeVars, exVars, item, storeVars, content, tbl, trello, cli, two>>

\* the truncation and the final strip
Truncate ==
    /\ doc.pc = "cut"
    /\ doc' = [doc EXCEPT !.pc = "done",
                          !.cleaned_text = truncate(doc.cleaned_html, doc.first_divider_pos)]
    /\ UNCHANGED <<pipeVars, exVars, item, storeVars, content, tbl, trello, cli, two>>

NextClean ==
    \/ EmptyBody
    \/ ConvertHtmlToText
    \/ FindFirstDivider
    \/ Truncate

SpecClean == InitClean /\ [][NextClean]_vars

\* ------------------------------ SpecTable: _convert_table_to_ascii alone
InitTable ==
    /\ PipelineIdle
    /\ SideIdle
    /\ content = IdleContent
    /\ doc = IdleDoc
    /\ trello = IdleTrello
    /\ cli = IdleCli
    /\ two = IdleTwo
    /\ \E trs \in SeqsUpTo(TableRows, MaxRows) :
          tbl = [IdleTable EXCEPT !.pc = "rows", !.trs = trs]

\* the loop over the rows and the choice of the header
CollectRows ==
    /\ tbl.pc = "rows"
    /\ LET c == pick_header(collect_rows(tbl.trs, <<>>, <<>>))
       IN  tbl' = IF c.header_row = <<>>
                  THEN [tbl EXCEPT !.pc = "done", !.result = EmptyString]
                  ELSE [tbl EXCEPT !.pc = "fit", !.header_row = c.header_row,
                                   !.rows = c.rows]
    /\ UNCHANGED <<pipeVars, exVars, item, storeVars, content, doc, trello, cli, two>>

\* pt.field_names = header_row, inside the try block
SetFieldNames ==
    /\ tbl.pc = "fit"
    /\ tbl' = IF field_names_raises(tbl.header_row)
              THEN [tbl EXCEPT !.pc = "done", !.result = EmptyString]
              ELSE [tbl EXCEPT !.pc = "render"]
    /\ UNCHANGED <<pipeVars, exVars, item, storeVars, content, doc, trello, cli, two>>

\* the rows are fitted to the header, added and rendered
Render ==
    /\ tbl.pc = "render"
    /\ tbl' = [tbl EXCEPT
                  !.pc = "done",
                  !.result = AsciiTable(tbl.header_row,
                                        valid_rows(tbl.rows, Len(tbl.header_row)))]
    /\ UNCHANGED <<pipeVars, exVars, item, storeVars, content, doc, trello, cli, two>>

NextTable ==
    \/ CollectRows
    \/ SetFieldNames
    \/ Render

SpecTable == InitTable /\ [][NextTable]_vars

\* ------------------------------ SpecSetup: managers setting up one board
InitSetup ==
    /\ PipelineIdle
    /\ SideIdle
    /\ content = IdleContent
    /\ doc = IdleDoc
    /\ tbl = IdleTable
    /\ cli = IdleCli
    /\ two = IdleTwo
    /\ \E app_board \in {"Mantis", "Inbox"} :
          \E lists \in SeqsUpTo(ListNames, 1) :
             trello = [IdleTrello EXCEPT !.app_board = app_board, !.lists = lists]

\* TrelloBoardManager.setup of manager m
Setup(m) ==
    /\ trello.setups < MaxSetups
    /\ trello' = [trello EXCEPT
          !.lists = setup_lists(trello.app_board, trello.lists),
          !.list_id[m] = setup_list_id(trello.app_board, trello.lists),
          !.setups = @ + 1,
          !.created = @ + (Len(setup_lists(trello.app_board, trello.lists))
                           - Len(trello.lists))]
    /\ UNCHANGED <<pipeVars, exVars, item, storeVars, content, doc, tbl, cli, two>>

\* TrelloBoardManager.__init__: a new manager for the same board
NewManager(m) ==
    /\ trello.list_id[m] # 0
    /\ trello' = [trello EXCEPT !.list_id[m] = 0]
    /\ UNCHANGED <<pipeVars, exVars, item, storeVars, content, doc, tbl, cli, two>>

\* somebody else adds a list to the board
OtherList(name) ==
    /\ Len(trello.lists) < MaxLists
    /\ trello' = [trello EXCEPT !.lists = Append(@, name)]
    /\ UNCHANGED <<pipeVars, exVars, item, storeVars, content, doc, tbl, cli, two>>

NextSetup ==
    \/ \E m \in Managers : Setup(m)
    \/ \E m \in Managers : NewManager(m)
    \/ \E name \in ListNames : OtherList(name)

SpecSetup == InitSetup /\ [][NextSetup]_vars

\* ------------------- SpecLive: runs that keep completing, under fairness
\* the model answers every call with a list holding an item at or above the
\* threshold
LiveOutcomes ==
    {Outcome("json", <<ItemJson("deadline", 90), ItemJson("task", 90)>>),
     Outcome("json", <<ItemJson("task", 40), ItemJson("task", 85)>>)}

\* a step of execute(), none of which raises
RunStep ==
    \/ ExecuteStart
    \/ Fetch
    \/ \E o \in LiveOutcomes : LLMCall(o)
    \/ CreateTasks
    \/ StoreProcessed
    \/ ExecuteFinish

NextLive ==
    \/ Tick
    \/ \E m \in MsgIds : Deliver(m)
    \/ RunStep

\* a started run goes on to its end, and the next run starts
SpecLive == Init /\ [][NextLive]_vars /\ WF_vars(RunStep)

\* ------------------------------------ SpecRun: runs of the v2 command
InitRun ==
    /\ PipelineIdle
    /\ SideIdle
    /\ content = IdleContent
    /\ doc = IdleDoc
    /\ tbl = IdleTable
    /\ trello = IdleTrello
    /\ two = IdleTwo
    /\ \E ts \in [MsgIds -> MsgDates], table \in InitialTables :
          /\ \A r \in table : r.message_date = isoformat(ts[r.message_id])
          /\ cli = [IdleCli EXCEPT !.timestamp = ts, !.table = table]

\* an hour passes between two runs
RunTick ==
    /\ cli.pc = "idle"
    /\ cli.clock < MaxHour
    /\ cli' = [cli EXCEPT !.clock = @ + 1]
    /\ UNCHANGED <<pipeVars, exVars, item, storeVars, content, doc, tbl, trello, two>>

\* what a run starts from
RunStarted(start_date) ==
    [cli EXCEPT !.runs = @ + 1, !.start_date = start_date,
                !.table_at_start = cli.table,
                !.emails = <<>>, !.pending = <<>>,
                !.extracted = [m \in MsgIds |-> 0],
                !.dispatched = [m \in MsgIds |-> 0],
                !.last_items = 0, !.outcome = "none"]

\* read_messages returns the messages since start_date, some perhaps twice;
\* retrieve_from returns no row and processed_emails is the empty set, so
\* the filter of the loop passes every message
RunFetch ==
    /\ cli.pc = "idle"
    /\ cli.runs < MaxRunsV2
    /\ LET start_date == start_date_of(cli.clock)
           since == {m \in MsgIds : Instant(cli.timestamp[m]) >= Instant(start_date)}
       IN  /\ retrieve_from(cli.table, start_date, <<>>) = {}
           /\ \E emails \in SeqsUpTo(since, MaxFetch) :
                 cli' = [RunStarted(start_date) EXCEPT
                            !.pc = "loop", !.emails = emails, !.pending = emails]
    /\ UNCHANGED <<pipeVars, exVars, item, storeVars, content, doc, tbl, trello, two>>

\* retrieve_from returns rows: they are plain tuples (the connection has no
\* row factory), m.message_id raises AttributeError, and the except block
\* around the run reports it; no message is visited
RunFetchRaises ==
    /\ cli.pc = "idle"
    /\ cli.runs < MaxRunsV2
    /\ LET start_date == start_date_of(cli.clock)
       IN  /\ retrieve_from(cli.table, start_date, <<>>) # {}
           /\ cli' = [RunStarted(start_date) EXCEPT !.outcome = "raised"]
    /\ UNCHANGED <<pipeVars, exVars, item, storeVars, content, doc, tbl, trello, two>>

\* one iteration of the loop: clean_body, process_email returns items_num
\* items, create_tasks returns, store
RunProcess(items_num) ==
    /\ cli.pc = "loop"
    /\ cli.pending # <<>>
    /\ LET m == Head(cli.pending)
       IN  cli' = [cli EXCEPT
                      !.pending = Tail(@),
                      !.extracted[m] = @ + 1,
                      !.dispatched[m] = IF items_num > 0 THEN @ + 1 ELSE @,
                      !.last_items = items_num,
                      !.no_items = IF items_num = 0 THEN @ \cup {m} ELSE @ \ {m},
                      !.table = run_store(@, m, cli.timestamp[m], items_num, cli.clock)]
    /\ UNCHANGED <<pipeVars, exVars, item, storeVars, content, doc, tbl, trello, two>>

\* process_email or create_tasks raises: the except block around the run
\* reports the error, nothing is stored for the message
RunRaises ==
    /\ cli.pc = "loop"
    /\ cli.pending # <<>>
    /\ cli' = [cli EXCEPT !.pc = "idle", !.pending = <<>>, !.outcome = "raised"]
    /\ UNCHANGED <<pipeVars, exVars, item, storeVars, content, doc, tbl, trello, two>>

\* the loop ends
RunEnd ==
    /\ cli.pc = "loop"
    /\ cli.pending = <<>>
    /\ cli' = [cli EXCEPT !.pc = "idle", !.outcome = "completed"]
    /\ UNCHANGED <<pipeVars, exVars, item, storeVars, content, doc, tbl, trello, two>>

NextRun ==
    \/ RunTick
    \/ RunFetch
    \/ RunFetchRaises
    \/ \E n \in 0..MaxItems : RunProcess(n)
    \/ RunRaises
    \/ RunEnd

SpecRun == InitRun /\ [][NextRun]_vars

\* --------------- SpecTwo: two executions, one mailbox, the same stores
InitTwo ==
    /\ PipelineIdle
    /\ SideIdle
    /\ content = IdleContent
    /\ doc = IdleDoc
    /\ tbl = IdleTable
    /\ trello = IdleTrello
    /\ cli = IdleCli
    /\ two = IdleTwo

\* the generator of execution e moves on to the next message of rest
TwoAdvance(e, rest, t) ==
    [t EXCEPT !.new_emails[e] = IF rest = <<>> THEN <<>> ELSE Tail(rest),
              !.email[e] = IF rest = <<>> THEN 0 ELSE Head(rest),
              !.pc[e] = IF rest = <<>> THEN "finish" ELSE "extract"]

\* a message reaches the mailbox
TwoDeliver(m) ==
    /\ m \notin two.mailbox
    /\ two' = [two EXCEPT !.mailbox = @ \cup {m}]
    /\ UNCHANGED <<pipeVars, exVars, item, storeVars, content, doc, tbl, trello, cli>>

\* execute() of e up to the first yield: the mailbox is read and the ids
\* with a stored row are taken out
TwoFetch(e) ==
    /\ two.pc[e] = "idle"
    /\ \E emails \in Orderings(two.mailbox) :
          LET IsNew(m) == m \notin two.stored
              t == [two EXCEPT
                       !.overlapped =
                           @ \/ \E o \in Executions \ {e} :
                                   two.pc[o] \in {"extract", "dispatch", "store", "finish"}]
          IN  two' = TwoAdvance(e, SelectSeq(emails, IsNew), t)
    /\ UNCHANGED <<pipeVars, exVars, item, storeVars, content, doc, tbl, trello, cli>>

\* process_email returns and the pair is yielded: with an item at or above
\* the threshold the message goes on to create_tasks, without one to the
\* next message
TwoExtract(e, qualifies) ==
    /\ two.pc[e] = "extract"
    /\ two' = IF qualifies
              THEN [two EXCEPT !.pc[e] = "dispatch"]
              ELSE TwoAdvance(e, RestAfter(two.new_emails[e], two.stored), two)
    /\ UNCHANGED <<pipeVars, exVars, item, storeVars, content, doc, tbl, trello, cli>>

\* create_tasks returns
TwoCreateTasks(e) ==
    /\ two.pc[e] = "dispatch"
    /\ two' = [two EXCEPT !.pc[e] = "store",
                          !.dispatched[e] = @ \cup {two.email[e]}]
    /\ UNCHANGED <<pipeVars, exVars, item, storeVars, content, doc, tbl, trello, cli>>

\* store_processed_emails returns
TwoStoreProcessed(e) ==
    /\ two.pc[e] = "store"
    /\ two' = TwoAdvance(e, RestAfter(two.new_emails[e], two.stored \cup {two.email[e]}),
                         [two EXCEPT !.stored = @ \cup {two.email[e]}])
    /\ UNCHANGED <<pipeVars, exVars, item, storeVars, content, doc, tbl, trello, cli>>

\* store_processed_emails raises on a message the other execution stored
\* in the meantime, and the exception leaves execute()
TwoStoreRaises(e) ==
    /\ two.pc[e] = "store"
    /\ two.email[e] \in two.stored
    /\ two' = [two EXCEPT !.pc[e] = "done", !.new_emails[e] = <<>>, !.email[e] = 0]
    /\ UNCHANGED <<pipeVars, exVars, item, storeVars, content, doc, tbl, trello, cli>>

\* the run configuration and the report are written
TwoFinish(e) ==
    /\ two.pc[e] = "finish"
    /\ two' = [two EXCEPT !.pc[e] = "done"]
    /\ UNCHANGED <<pipeVars, exVars, item, storeVars, content, doc, tbl, trello, cli>>

NextTwo ==
    \/ \E m \in MsgIds : TwoDeliver(m)
    \/ \E e \in Executions : TwoFetch(e)
    \/ \E e \in Executions, q \in BOOLEAN : TwoExtract(e, q)
    \/ \E e \in Executions : TwoCreateTasks(e)
    \/ \E e \in Executions : TwoStoreProcessed(e)
    \/ \E e \in Executions : TwoStoreRaises(e)
    \/ \E e \in Executions : TwoFinish(e)

SpecTwo == InitTwo /\ [][NextTwo]_vars

\* ================================================================ claims
RunInProgress == pc \in {"fetch", "extract", "dispatch", "store", "finish"}

AfterFetch == pc \in {"extract", "dispatch", "store", "finish"}

RunCompleted == pc = "idle" /\ hist.outcome = "completed"

\* C1: across any sequence of runs, completed or aborted, create_tasks
\* returns for a given message at most once in total.
C1_DispatchedAtMostOnce == \A m \in MsgIds : hist.dispatched_ok[m] <= 1

\* C2: a message is recorded in the store (message row, item rows) only after
\* create_tasks has returned for that same message in the same run; no
\* recorded message is without a successful dispatch.
C2_StoredOnlyAfterDispatch ==
    /\ \A m \in MsgIds :
          (email_contents[m] > 0 \/ action_items_tbl[m] # <<>>)
              => hist.dispatched_ok[m] >= 1
    /\ hist.run.stored \subseteq hist.run.dispatched
    /\ pc = "store" => email \in hist.run.dispatched

C2_Witness ==
    \E m \in MsgIds : m \in hist.run.stored /\ email_contents[m] > 0 /\ cards[m] # <<>>

\* a dispatch step that is not a successful create_tasks ends the run on the
\* exception and writes nothing for the message
C3_RaiseEndsRun ==
    (pc = "dispatch" /\ hist'.dispatched_ok = hist.dispatched_ok)
        => /\ pc' = "idle"
           /\ hist'.outcome = "aborted"
           /\ hist'.abort_step = "dispatch"
           /\ hist'.abort_email = email
           /\ email_contents' = email_contents
           /\ action_items_tbl' = action_items_tbl
           /\ email \notin hist'.run.stored

\* the fetch of the run after a failed dispatch takes the message as new when
\* the mailbox returns it
C3_RetriedAsNew ==
    (pc = "fetch" /\ pc' \in {"extract", "finish"}
        /\ hist.outcome = "aborted" /\ hist.abort_step = "dispatch"
        /\ hist.abort_email \in hist'.run.fetched)
        => hist.abort_email \in hist'.run.new_set

\* a completed run has extracted every new message and dispatched every
\* qualifying one
C3_NewAreHandled ==
    /\ RunCompleted =>
          /\ hist.run.new_set \subseteq hist.run.extracted
          /\ hist.run.qualified \subseteq hist.run.dispatched
    /\ pc \in {"dispatch", "store"} => email \in hist.run.qualified

C4_StoredAreExcluded ==
    \A m \in hist.run.fetched \cap hist.run.known :
        hist.dispatched_ok[m] >= 1 => m \notin hist.run.new_set

\* C5: a run in which a step raises leaves the run_configurations table and
\* the execution reports as they were when it started, and the run after it
\* reads the same last_run_time.
C5_AbortLeavesRunWindow ==
    /\ (RunInProgress \/ (pc = "idle" /\ hist.outcome = "aborted"))
          => /\ run_configurations = hist.start_configs
             /\ Len(execution_reports) = hist.start_reports
             /\ hist.run.persisted = 0
    /\ (RunInProgress /\ runs >= 2 /\ hist.outcome = "aborted")
          => hist.passed = hist.prev_passed

\* a run reads the stored last_run_time again after a run that aborted past
\* its fetch
C5_Witness ==
    /\ runs >= 2
    /\ AfterFetch
    /\ hist.outcome = "aborted"
    /\ hist.abort_step \in {"extract", "dispatch", "store"}
    /\ hist.passed = hist.prev_passed
    /\ \E m \in MsgIds : hist.dispatched_ok[m] >= 1

\* C6: a run that completes writes last_run_time once, as its last step, with
\* the current time, after every new message was extracted and every
\* qualifying one dispatched and stored; the next run passes that value to
\* process_new_emails, and a run before any completed run passes None.
C6_LastRunAdvance ==
    /\ RunInProgress => hist.run.persisted = 0
    /\ RunCompleted =>
          /\ hist.run.persisted = 1
          /\ hist.last_persisted = hist.finish_clock
          /\ retrieve_last(run_configurations).last_run_time = hist.last_persisted
          /\ hist.run.new_set = hist.run.extracted
          /\ hist.run.qualified = hist.run.dispatched
          /\ hist.run.qualified = hist.run.stored
          /\ hist.run.extracted = hist.run.qualified \cup hist.run.gated_out
    /\ RunInProgress => hist.passed = hist.last_persisted
    /\ (RunInProgress /\ hist.last_persisted = NoneTime) =>
          run_configuration.last_run_time = NoneTime
    /\ Len(run_configurations) <= 1

\* a second run is under way after a completed one that handled a message
C6_Witness ==
    /\ runs >= 2
    /\ RunInProgress
    /\ hist.outcome = "completed"
    /\ hist.passed # NoneTime
    /\ \E m \in MsgIds : email_contents[m] > 0

\* nothing below the threshold is on the board or in the store; the filtered
\* list is the list of the yielded items at or above it, and it goes to
\* dispatch when it is not empty
C7_OnlyQualifying ==
    /\ \A m \in MsgIds :
          /\ \A i \in 1..Len(cards[m]) : cards[m][i].confidence_score >= confidence_level
          /\ \A i \in 1..Len(action_items_tbl[m]) :
                action_items_tbl[m][i].confidence_score >= confidence_level
    /\ AfterFetch => filtered_action_items = AtOrAbove(action_items)
    /\ pc \in {"dispatch", "store"} => filtered_action_items # <<>>

\* a successful create_tasks adds one card per item at or above the threshold
C7_DispatchStep ==
    (pc = "dispatch" /\ pc' = "store")
        => cards' = [cards EXCEPT ![email] = @ \o AtOrAbove(action_items)]

\* a successful store adds one row per item at or above the threshold
C7_StoreStep ==
    (pc = "store" /\ email \in hist'.run.stored)
        => action_items_tbl' =
              [action_items_tbl EXCEPT ![email] = @ \o AtOrAbove(action_items)]

\* C7: what is dispatched and what is stored for a message are exactly its
\* items with confidence_score >= threshold, the threshold itself included;
\* no item below it ever reaches the board or the store.
C7_ExactlyQualifying ==
    /\ []C7_OnlyQualifying
    /\ [][C7_DispatchStep /\ C7_StoreStep]_vars

\* a message with one item below and one item at the threshold was stored
C7_Witness ==
    \E m \in MsgIds :
        /\ m \in hist.run.stored
        /\ Len(action_items_tbl[m]) = 1
        /\ action_items_tbl[m][1].confidence_score = confidence_level
        /\ cards[m] = action_items_tbl[m]

\* C8 as stated: a message without a qualifying item is neither dispatched nor
\* recorded by that run, and the next run fetches it and extracts it again.
C8_RetriedByNextRun ==
    /\ hist.run.gated_out \cap (hist.run.dispatched \cup hist.run.stored) = {}
    /\ (AfterFetch /\ runs >= 2) => hist.prev_gated_out \subseteq hist.run.fetched
    /\ (RunCompleted /\ runs >= 2) => hist.prev_gated_out \subseteq hist.run.extracted

\* C8 as amended: such a message is neither dispatched nor recorded by that
\* run; the next run takes it as new, and extracts it again if it completes,
\* whenever its mailbox fetch returns the message again.
C8_RetriedWhenFetched ==
    /\ hist.run.gated_out \cap (hist.run.qualified \cup hist.run.dispatched
                                 \cup hist.run.stored) = {}
    /\ \A m \in hist.run.gated_out : m \notin hist.run.known => email_contents[m] = 0
    /\ (AfterFetch /\ runs >= 2) =>
          (hist.prev_gated_out \cap hist.run.fetched) \subseteq hist.run.new_set
    /\ (RunCompleted /\ runs >= 2) =>
          (hist.prev_gated_out \cap hist.run.fetched) \subseteq hist.run.extracted

\* the run after the one that gated a message out has extracted it again
C8_Witness ==
    /\ runs >= 2
    /\ RunCompleted
    /\ \E m \in hist.prev_gated_out : m \in hist.run.extracted

\* C9: one extraction calls the model client at most max_retries + 1 times;
\* when attempt k is the first that succeeds the client was called exactly k
\* times and the extraction has returned, so it is not called again.
C9_BoundedCalls ==
    \A ex \in {ex1, ex2} :
        /\ ex.calls <= ex_max + 1
        /\ ex.first_ok # 0 => (ex.status = "returned" /\ ex.calls = ex.first_ok)
        /\ ex.status = "returned" => ex.first_ok = ex.calls
        /\ ex.status = "running" => ex.calls = ex.attempt

\* two failed attempts, then the third succeeds: three calls
C9_Witness ==
    /\ ex_max = 3
    /\ ex1.status = "returned" /\ ex1.calls = 3 /\ ex1.action_items # <<>>
    /\ ex2.status = "returned" /\ ex2.calls = 3

\* C10: when all max_retries + 1 attempts fail the extraction raises the
\* error of the last attempt; an extraction returns a list only when one of
\* its attempts succeeded.
C10_ExhaustedRaises ==
    \A ex \in {ex1, ex2} :
        /\ ex.status = "raised" =>
              /\ ex.calls = ex_max + 1
              /\ ex.first_ok = 0
              /\ ex.error # "none"
              /\ ex.error = AttemptError(ex_last)
        /\ (ex.calls = ex_max + 1 /\ ex.first_ok = 0) => ex.status = "raised"
        /\ ex.status = "returned" => ex.first_ok # 0

\* every attempt of an extraction with retries failed, the last on a response
\* with an unknown type
C10_Witness ==
    /\ ex_max >= 1
    /\ ex1.status = "raised" /\ ex1.calls = ex_max + 1 /\ ex1.error = "ValueError"
    /\ ex2.status = "raised" /\ ex2.calls = ex_max + 1

\* C11: an extraction that returns after earlier failed attempts returns
\* exactly the items of the successful attempt's response, in response
\* order, and nothing built during a failed attempt.
C11_OnlySuccessfulAttemptItems ==
    \A ex \in {ex1, ex2} :
        ex.status = "returned" =>
            ex.action_items =
                [i \in 1..Len(ex_last.items) |-> map_action(1, ex_last.items[i])]

\* the members of a sequence
Range(s) == {s[i] : i \in 1..Len(s)}

\* the last attempt of an extraction ends without a yielded pair: the run
\* ends there and the step writes nothing
C12_RaiseStep ==
    (/\ pc = "extract"
     /\ ext.status = "running"
     /\ ext.attempt = max_retries_default
     /\ hist'.run.yielded = hist.run.yielded)
        => /\ pc' = "idle"
           /\ new_emails' = <<>>
           /\ hist'.outcome = "aborted"
           /\ hist'.abort_step = "extract"
           /\ hist'.abort_email = email
           /\ hist'.run = hist.run
           /\ cards' = cards
           /\ email_contents' = email_contents
           /\ action_items_tbl' = action_items_tbl

\* after such a run: the pairs yielded are the messages of the batch before
\* the failed one, nothing of the batch from the failed message on was
\* extracted, dispatched or stored, and what was dispatched and stored
\* before is on the board and in the tables
C12_NoLaterMessage ==
    (pc = "idle" /\ hist.outcome = "aborted" /\ hist.abort_step = "extract") =>
        LET y == hist.run.yielded
            b == hist.run.batch
        IN  /\ Len(y) < Len(b)
            /\ y = SubSeq(b, 1, Len(y))
            /\ hist.abort_email = b[Len(y) + 1]
            /\ hist.run.extracted = Range(y)
            /\ \A j \in (Len(y) + 1)..Len(b) :
                  b[j] \notin hist.run.extracted \cup hist.run.dispatched
                                  \cup hist.run.stored
            /\ hist.run.dispatched = hist.run.qualified
            /\ hist.run.stored = hist.run.qualified
            /\ \A m \in hist.run.dispatched : cards[m] # <<>>
            /\ \A m \in hist.run.stored :
                  email_contents[m] > 0 /\ action_items_tbl[m] # <<>>

\* C12: when the extraction of a message fails after its retries the run
\* aborts at that message: no later message of the batch is extracted,
\* dispatched or stored in that run, and the messages handled before it keep
\* their cards and their rows.
C12_AbortsAtFailedMessage ==
    /\ [][C12_RaiseStep]_vars
    /\ []C12_NoLaterMessage

\* the extraction of the second message of a batch failed after the first
\* message was dispatched and stored
C12_Witness ==
    /\ pc = "idle"
    /\ hist.outcome = "aborted"
    /\ hist.abort_step = "extract"
    /\ Len(hist.run.batch) = 2
    /\ hist.abort_email = hist.run.batch[2]
    /\ hist.run.stored = {hist.run.batch[1]}

C14_OneReportPerCompletedRun ==
    /\ RunInProgress => Len(execution_reports) = hist.start_reports
    /\ RunCompleted =>
          /\ Len(execution_reports) = hist.start_reports + 1
          /\ LET r == execution_reports[Len(execution_reports)]
             IN  /\ r.run_status = "SUCCESS"
                 /\ r.retrieved_emails = Cardinality(hist.run.qualified)
                 /\ r.retrieved_emails = Cardinality(hist.run.dispatched)
                 /\ r.retrieved_emails = Cardinality(hist.run.stored)
                 /\ r.generated_action_items = hist.run.qual_items

\* a completed run in which one message had two qualifying items and another
\* yielded message had none
C14_Witness ==
    /\ RunCompleted
    /\ Len(hist.run.yielded) = 2
    /\ Cardinality(hist.run.qualified) = 1
    /\ hist.run.qual_items = 2

\* C15: the messages a run keeps after the recipient filter are, in mailbox
\* order, all fetched messages when the allow-list is empty, and otherwise
\* the fetched messages with at least one recipient address in the
\* allow-list.
C15_RecipientFilter ==
    LET Allowed(m) == Range(Recipients(m)) \cap Range(filters) # {}
        KeepAll(m) == TRUE
    IN  hist.run.kept =
            IF filters = <<>>
            THEN SelectSeq(hist.run.mailbox, KeepAll)
            ELSE SelectSeq(hist.run.mailbox, Allowed)

\* with an allow-list, two messages were fetched: the one with a listed and
\* an unlisted recipient was kept, the one with no listed recipient was not
C15_Witness ==
    /\ filters = <<"a@x">>
    /\ Len(hist.run.mailbox) = 2
    /\ hist.run.kept = <<1>>

\* without an allow-list both fetched messages were kept
C15_WitnessNoFilter ==
    /\ filters = <<>>
    /\ Len(hist.run.mailbox) = 2
    /\ Len(hist.run.kept) = 2

\* C16: for a due date d (possibly absent) and a send date s that can be
\* ordered (both naive or both aware), _sanitarize_date returns s when d is
\* absent, s when d is earlier than s, and d otherwise; its result is never
\* earlier than s.
C16_SanitizeNeverEarlier ==
    item.pc \in {"map", "appended"} =>
        LET d == item.parsed
            s == item.email_date
            r == item.due_date
            Ordered == d = NoneDate \/ ((d.tzinfo = "naive") <=> (s.tzinfo = "naive"))
        IN  Ordered =>
                /\ r = IF d = NoneDate THEN s
                       ELSE IF Instant(d) < Instant(s) THEN s ELSE d
                /\ Instant(r) >= Instant(s)

\* C17: a due-date value that cannot be parsed (a text no parser accepts, a
\* value that is not a string) is parsed to no date without ending the
\* attempt, and is then sanitized to the send date.
C17_UnparseableIsNoDate ==
    item.item_json.due_date.kind \in {"text", "number"} =>
        /\ item.error # "TypeError"
        /\ item.pc # "parse" => item.parsed = NoneDate
        /\ item.pc \in {"map", "appended"} => item.due_date = item.email_date

\* C18: once map_action was called for an item, an ActionItem was appended:
\* of type TASK when the type is missing or not one of the five names, of
\* the named type otherwise; the attempt did not end there.
C18_TypeDefaultsToTask ==
    (item.pc = "appended" \/ item.error = "ValueError") =>
        LET t == item.item_json.type
        IN  /\ item.pc = "appended"
            /\ t \in ValidTypes => item.action_item.action_type = t
            /\ (t = "<absent>" \/ lower(t) \notin ValidTypes) =>
                  item.action_item.action_type = "task"

\* C19: every ActionItem appended has a confidence_score within [0.0, 1.0]
\* (0..100 in hundredths).
C19_ConfidenceInRange ==
    item.pc = "appended" =>
        /\ item.action_item.confidence_score >= 0
        /\ item.action_item.confidence_score <= 100

\* the rows PROCESSED_EMAIL holds for a message_id
RowsOf(m) == {r \in processed_email : r.message_id = m}

\* C20: after any sequence of store calls the table holds at most one row
\* per message_id, none for an id never stored, and for an id that was
\* stored the row carries the message date, the status and the process date
\* of the latest store call for that id (the clock of the call when no
\* process date was given).
C20_OneRecordPerMessage ==
    \A m \in MsgIds :
        LET c == store_hist.last[m]
        IN  IF c = NoCall
            THEN RowsOf(m) = {}
            ELSE RowsOf(m) =
                    {ProcessedEmails(
                        m, isoformat(c.message_date), c.process_state,
                        isoformat(IF c.process_date = NoneDate
                                  THEN DateTime(c.clock, "naive")
                                  ELSE c.process_date))}

\* a record of message 1 was replaced by a later store with another status,
\* another message date and the clock as process date, while message 2 has
\* its own record
C20_Witness ==
    /\ store_hist.replaced[1]
    /\ store_hist.last[1].process_state = "FAILED"
    /\ store_hist.last[1].process_date = NoneDate
    /\ store_hist.last[1].clock > 0
    /\ Cardinality(RowsOf(1)) = 1
    /\ Cardinality(RowsOf(2)) = 1

\* C21: was_processed(m, s) is true iff the record stored for m has status s
\* (PROCESSED when no status is given): false before any store for m, true
\* after store(m, PROCESSED), false again once that record is overwritten
\* with FAILED or SKIPPED.
C21_WasProcessed ==
    \A m \in MsgIds :
        LET c == store_hist.last[m]
        IN  /\ \A s \in ProcessStates :
                  was_processed(processed_email, m, s)
                      <=> (c # NoCall /\ c.process_state = s)
            /\ c = NoCall => ~was_processed(processed_email, m, "PROCESSED")
            /\ (c # NoCall /\ c.process_state = "PROCESSED")
                  => was_processed(processed_email, m, "PROCESSED")
            /\ (c # NoCall /\ c.process_state \in {"FAILED", "SKIPPED"})
                  => ~was_processed(processed_email, m, "PROCESSED")

\* the PROCESSED record of message 1 was overwritten with FAILED and
\* was_processed is false for it, while it is true for message 2
C21_Witness ==
    /\ store_hist.over_processed[1]
    /\ store_hist.last[1].process_state = "FAILED"
    /\ ~was_processed(processed_email, 1, "PROCESSED")
    /\ was_processed(processed_email, 2, "PROCESSED")

\* C22: for a date d and every stored record whose message date can be
\* ordered against d (both naive or both aware), retrieve_from(d, state_in)
\* returns the record iff its message date is at or after d and, when
\* state_in is not empty, its status is in state_in; it returns nothing that
\* is not stored.
C22_RetrieveFrom ==
    \A d \in QueryDates, state_in \in StateFilters :
        LET result == retrieve_from(processed_email, d, state_in)
        IN  /\ result \subseteq processed_email
            /\ \A m \in MsgIds :
                  LET c == store_hist.last[m]
                  IN  (/\ c # NoCall
                       /\ (c.message_date.tzinfo = "naive") <=> (d.tzinfo = "naive"))
                      => ((RowsOf(m) \cap result # {})
                            <=> /\ Instant(c.message_date) >= Instant(d)
                                /\ state_in # <<>> => InSeq(c.process_state, state_in))

\* C23: a cleaned value the message holds is the cleaning of its current
\* body; since the body was last assigned the parser was called at most
\* once, on the first clean_body access, and every access returned the
\* cleaning of the current body; assigning the body discards the cleaned
\* value.
C23_CachedStep ==
    /\ (content'.body_ # content.body_ /\ content'.body_ # body(content))
          => content'.clean_body_ = NoneStr
    /\ (content'.reads > content.reads \/ content'.returned # content.returned)
          => /\ content'.returned = EmailParser_clean_body(body(content))
             /\ content'.parser_calls =
                   content.parser_calls + (IF content.clean_body_ = NoneStr THEN 1 ELSE 0)

C23_CacheInv ==
    /\ content.clean_body_ # NoneStr =>
          content.clean_body_ = EmailParser_clean_body(body(content))
    /\ content.parser_calls <= 1
    /\ content.reads >= 1 =>
          /\ content.parser_calls = 1
          /\ content.returned = EmailParser_clean_body(body(content))

C23_CleanBodyFollowsBody ==
    /\ [][C23_CachedStep]_vars
    /\ []C23_CacheInv

\* the body was reassigned after a first cleaning, and clean_body was read
\* twice since: it returned the cleaning of the new body, computed once
C23_Witness ==
    /\ content.raw_content = "Hi"
    /\ content.body_ = "<p>Hi</p>"
    /\ content.reads = 2
    /\ content.parser_calls = 1
    /\ content.returned = "Hi"

\* the chunks that hold a divider marker
MarkerChunks == {"E", "F", "H", "R"}

\* C24: clean_body returns the normalized text cut strictly before the
\* earliest marker of any kind (and stripped), or the whole normalized text
\* (stripped) when it holds no marker.
C24_CutAtEarliestMarker ==
    (doc.pc = "done" /\ doc.body # <<>>) =>
        LET n == doc.cleaned_html
            p == First(Where(n, MarkerChunks))
        IN  doc.cleaned_text =
                IF p # NonePos THEN strip(SubSeq(n, 1, p - 1)) ELSE strip(n)

\* a body without markup: no tag and no address in angle brackets
PlainText(text) == Where(text, {"T", "A"}) = {}

C26_ParserFailureReturnsOriginal ==
    (/\ doc.pc \in {"find", "cut", "done"}
     /\ doc.soup_raises
     /\ ~PlainText(doc.body))
        => doc.cleaned_html = doc.body

\* C27: for a table whose rows all hold cells, the header of the result is
\* the first row with header cells, or the first row when there is none, and
\* every other row is a data row of the result, in order, with exactly the
\* header's number of cells: padded on the right with empty cells or cut.
C27_HeaderAndDataRows ==
    (/\ tbl.pc = "done"
     /\ tbl.trs # <<>>
     /\ \A i \in 1..Len(tbl.trs) : tbl.trs[i].cells # <<>>) =>
        LET n == Len(tbl.trs)
            with_th == {i \in 1..n : tbl.trs[i].th}
            h == IF with_th = {} THEN 1 ELSE Min(with_th)
            header == tbl.trs[h].cells
            Other(i) == IF i < h THEN i ELSE i + 1
            Cell(row, k) == IF k <= Len(row) THEN row[k] ELSE ""
        IN  /\ tbl.result.kind = "table"
            /\ tbl.result.field_names = header
            /\ tbl.result.rows =
                  [i \in 1..(n - 1) |->
                      [k \in 1..Len(header) |-> Cell(tbl.trs[Other(i)].cells, k)]]

\* C28: after a setup the manager's list_id is the id of a list named
\* app_board, a setup creates a list only when the board has no list of that
\* name, and all the setups against one board create at most one list.
C28_SetupStep ==
    trello'.setups # trello.setups =>
        /\ \A m \in Managers :
              trello'.list_id[m] # trello.list_id[m] =>
                 /\ trello'.list_id[m] \in 1..Len(trello'.lists)
                 /\ trello'.lists[trello'.list_id[m]] = trello.app_board
        /\ trello'.created # trello.created => ~InSeq(trello.app_board, trello.lists)

C28_SetupIdempotent == [][C28_SetupStep]_vars /\ [](trello.created <= 1)

\* C29: a message that is in the mailbox and passes the recipient filters,
\* while a run has started and another run is still to come, is eventually
\* dispatched, whenever it was delivered: while no run was in progress, or
\* after the fetch of a run and before that run wrote last_run_time.
C29_Waiting(m) ==
    /\ received[m] # NoneTime
    /\ apply_filters(<<m>>, filters) = <<m>>
    /\ runs >= 1
    /\ runs < MaxRuns

C29_EventuallyDispatched ==
    \A m \in MsgIds : C29_Waiting(m) ~> (hist.dispatched_ok[m] > 0)

\* C30: a message id that one fetch returned more than once is handed to
\* the extraction at most once and dispatched at most once by that run.
C30_DuplicateHandledOnce ==
    \A m \in MsgIds :
        Occurrences(cli.emails, m) > 1 =>
            /\ cli.extracted[m] <= 1
            /\ cli.dispatched[m] <= 1

\* C31: when two executions over the same mailbox and the same stores ran
\* at the same time, no message was dispatched by both of them.
C31_NoDoubleDispatch ==
    two.overlapped => two.dispatched["e1"] \cap two.dispatched["e2"] = {}

\* C32: within a run the extraction of the next message starts only after
\* the message yielded before it was gated and, when an item of it is at or
\* above the threshold, dispatched and stored; and at any moment at most one
\* message of the run has been extracted but not yet gated out or stored.
C32_NextExtractionStep ==
    (pc' = "extract" /\ email # 0 /\ email' # email) =>
        \/ AtOrAbove(action_items') = <<>> /\ email \in hist'.run.gated_out
        \/ email \in hist'.run.dispatched \cap hist'.run.stored

C32_OneInHand ==
    /\ Cardinality(hist.run.extracted \ (hist.run.gated_out \cup hist.run.stored)) <= 1
    /\ (pc = "extract" /\ ext.status = "running") =>
          hist.run.extracted \subseteq hist.run.gated_out \cup hist.run.stored

C32_StrictlySequential == [][C32_NextExtractionStep]_vars /\ []C32_OneInHand

\* the second message of a batch is being extracted after the first one was
\* dispatched and stored
C32_Witness ==
    /\ pc = "extract"
    /\ ext.status = "running"
    /\ email # 0
    /\ hist.run.stored # {}
    /\ hist.run.stored = hist.run.dispatched
    /\ email \notin hist.run.extracted

\* C33: in the run command a message whose extraction and create_tasks call
\* returned is recorded as PROCESSED by that step, with or without items;
\* and a run hands no message to the extraction that had a record, of any
\* status, since the start date when the run began.
C33_RunStep ==
    \A m \in MsgIds :
        cli'.extracted[m] > cli.extracted[m] =>
            /\ \E r \in cli'.table :
                  r.message_id = m /\ r.process_state = "PROCESSED"
            /\ ~\E r \in cli.table_at_start :
                  /\ r.message_id = m
                  /\ Instant(cli.timestamp[m]) >= Instant(cli.start_date)

====
